---- MODULE Spec2Model ----
(***************************************************************************)
(* Model of the batch download pipeline of ytaudio:                        *)
(*   downloader.DownloadSongList + songWorker   (song-list / CSV batches)  *)
(*   PlaylistDownloader.DownloadPlaylist + worker   (playlist batches)     *)
(* One behaviour is one invocation of the batch function.  The main        *)
(* goroutine and every worker goroutine take one step at each channel,     *)
(* wait-group or external-call boundary.                                   *)
(***************************************************************************)
EXTENDS Integers, Sequences, FiniteSets, TLC

\* ---------------------------------------------------------------- bounds
MaxJobs == 3
MaxLimit == 2
\* Longest value of -m, and most rows of a CSV file.
MaxText == 5
MaxRows == 2

\* Characters of the text file of -f.
MaxFile == 5

\* ----------------------------------------------------------------- state
VARIABLES
  mode,          \* the branch run has taken ("none": not yet), "songs" for
                 \* DownloadSongList, "playlist" for DownloadPlaylist
  limit,         \* cfg.ConcurrentDownloads / pd.ConcurrentLimit
  njobs,         \* len(cleanSongs) / len(videos)
  fate,          \* what the external calls answer for job j
  mainpc,        \* position of the goroutine running the batch function
  spawned,       \* workers started so far (w-1 of the spawn loop)
  enqueued,      \* jobs sent so far (index of the send loop)
  jobs,          \* buffer of the jobs channel (job indices, FIFO)
  jobsClosed,    \* close(jobs) done
  results,       \* buffer of the results channel (FIFO)
  resultsClosed, \* close(results) done
  wg,            \* sync.WaitGroup counter
  wpc,           \* position of worker w
  holding,       \* job held by worker w (0: none)
  errors,        \* len(errors) in the collecting loop
  drained,       \* values received by the collecting loop
  ret,           \* what the batch function returned
  halt,          \* "no", or how the process died: "fatal" (log.Fatalf), "panic"
  searchCalls,   \* history: SearchVideos calls made for job j
  fetchCalls,    \* history: DownloadAudio / DownloadFunction calls made for job j
  outcome,       \* history: error values sent on results for job j
  installed,     \* environment: `yt-dlp --version` succeeds
  fetchArgs,     \* history: identifiers the downloads of job j were called with
  ytDlpChecks,   \* history: checkYtDlpInstalled calls made
  environ,       \* environment variables api_key and youtube_api_key
  cfg,           \* config.Config (ConcurrentDownloads is the variable limit)
  file,          \* the file cfg.SongCSVFile or cfg.FilePath names
  nextPageToken, \* nextPageToken of getPlaylistVideos (0: the empty token)
  cleanSongs,    \* cleanSongs of DownloadSongList / videos of DownloadPlaylist
  searchArgs,    \* history: query texts SearchVideos was called with for job j
  songQuery,     \* songQuery of ParseFlags: the value of -s
  lineNo         \* i+1 of the loop over the lines in ProcessFile

vars == <<mode, limit, njobs, fate, mainpc, spawned, enqueued, jobs, jobsClosed,
          results, resultsClosed, wg, wpc, holding, errors, drained, ret, halt,
          searchCalls, fetchCalls, outcome, installed, fetchArgs,
          ytDlpChecks, environ, cfg, file, nextPageToken, cleanSongs, searchArgs,
          songQuery, lineNo>>

Modes == {"songs", "playlist"}

\* Every limit <= 0 takes the path of 0: the spawn loop
\* `for w := 1; w <= limit; w++` runs no iteration.
Limits == 0..MaxLimit

JobIds == 1..njobs

\* Goroutine slots; worker w exists once the spawn loop has started it.
WorkerIds == 1..(MaxLimit + 1)

\* SearchVideos answers an error, an empty list or a non-empty list; the
\* download of the first candidate then returns nil or an error.  A playlist
\* job is an identifier: only the download applies.  Without yt-dlp no
\* download succeeds, so "ok" is no answer then.
Fates(m) ==
  IF m = "songs" THEN {"searchErr", "notFound", "fetchErr", "ok"}
                 ELSE {"fetchErr", "ok"}

\* How many candidates a successful search returns: one, or several.
VideoCounts == {1, 2}

\* A string is the sequence of its characters.
Audio == <<" ", "a", "u", "d", "i", "o">>

Comma == <<",">>

\* The song names of the list of a song batch: the j-th entry is the j-th
\* letter of Titles, the list starting over after the last, so that a list
\* of three songs or more names a song twice.
Titles == <<"A", "B">>

SongAt(j) == <<Titles[((j - 1) % Len(Titles)) + 1]>>

\* Identifiers: the r-th candidate the search returns for the song of job
\* j, and the video identifier of playlist entry j ("v" and its title).  The
\* same song gives the same candidates, and a playlist of three entries or
\* more holds a video twice.
CandidateId(j, r) == <<SongAt(j), r>>

EntryId(j) == <<"v">> \o SongAt(j)

\* The value of -m for the songs 1..n: the names joined by commas.
RECURSIVE SongListText(_)
SongListText(n) ==
  IF n = 0 THEN <<>>
  ELSE IF n = 1 THEN SongAt(1)
  ELSE SongListText(n - 1) \o Comma \o SongAt(n)

\* The key in the environment of a batch run.
ApiKey == <<"K">>

PlaylistId == <<"P">>

\* The Config that pflag.Parse() leaves for the flags -d, -l, -f, -p, -m,
\* --csv-file and -h.
Config(query, listMode, filePath, playlistID, songList, csvFile, showHelp) ==
  [Query |-> query, ListMode |-> listMode, FilePath |-> filePath,
   APIKey |-> <<>>, SongMode |-> FALSE, PlaylistID |-> playlistID,
   SongListMode |-> FALSE, SongList |-> songList, SongCSVFile |-> csvFile,
   ShowHelp |-> showHelp]

\* A file on disk: whether os.Open finds it, and its rows of fields.
File(rows) == [exists |-> TRUE, rows |-> rows]

NoFile == [exists |-> FALSE, rows |-> <<>>]

\* MaxResults(50): the items of one page of PlaylistItems.List.
PageSize == 2

\* PlaylistItems.List for the page token `token` (the offset of the page; 0
\* is the empty token) of a playlist of n entries.
PlaylistItemsList(n, token) ==
  [Items |-> [i \in 1..(IF n - token < PageSize THEN n - token ELSE PageSize)
                |-> EntryId(token + i)],
   NextPageToken |-> IF token + PageSize >= n THEN 0 ELSE token + PageSize]

\* The error value a worker sends for a job.  `about` is the job the text of
\* the error names (0: none); `src` is the job it was sent for.
Result(j, e, a) == [src |-> j, err |-> e, about |-> a]

\* The error value of the batch function; n is the count its text names.
BatchReturn(e, n) == [err |-> e, n |-> n]

NotReturned == BatchReturn("none", 0)

Init ==
  /\ mode \in Modes
  /\ limit \in Limits
  /\ njobs \in 0..MaxJobs
  /\ installed \in BOOLEAN
  /\ fate \in [1..njobs -> Fates(mode) \ (IF installed THEN {} ELSE {"ok"})]
  /\ mainpc = IF mode = "songs" THEN "start" ELSE "pages"
  /\ environ = [api_key |-> ApiKey, youtube_api_key |-> <<>>]
  /\ cfg = IF mode = "songs"
             THEN [Config(<<>>, FALSE, <<>>, <<>>,
                          IF njobs = 0 THEN Comma ELSE SongListText(njobs),
                          <<>>, FALSE)
                     EXCEPT !.APIKey = ApiKey, !.SongListMode = TRUE]
             ELSE [Config(<<>>, FALSE, <<>>, PlaylistId, <<>>, <<>>, FALSE)
                     EXCEPT !.APIKey = ApiKey]
  /\ songQuery = <<>>
  /\ lineNo = 0
  /\ file = NoFile
  /\ nextPageToken = 0
  /\ cleanSongs = IF mode = "songs" THEN [j \in 1..njobs |-> SongAt(j)] ELSE <<>>
  /\ searchArgs = [j \in 1..njobs |-> <<>>]
  /\ spawned = 0
  /\ enqueued = 0
  /\ jobs = <<>>
  /\ jobsClosed = FALSE
  /\ results = <<>>
  /\ resultsClosed = FALSE
  /\ wg = 0
  /\ wpc = [w \in WorkerIds |-> "unborn"]
  /\ holding = [w \in WorkerIds |-> 0]
  /\ errors = 0
  /\ drained = 0
  /\ ret = NotReturned
  /\ halt = "no"
  /\ searchCalls = [j \in 1..njobs |-> 0]
  /\ fetchCalls = [j \in 1..njobs |-> 0]
  /\ outcome = [j \in 1..njobs |-> <<>>]
  /\ fetchArgs = [j \in 1..njobs |-> <<>>]
  /\ ytDlpChecks = 0

Running == halt = "no"

\* ------------------------------------------------------- main goroutine

Min(a, b) == IF a <= b THEN a ELSE b

\* Mutant: the loop stops after the first page.
FetchPageFirstOnly ==
  /\ Running
  /\ mainpc = "pages"
  /\ LET response == PlaylistItemsList(njobs, nextPageToken)
     IN  /\ cleanSongs' = cleanSongs \o response.Items
         /\ nextPageToken' = response.NextPageToken
         /\ mainpc' = "start"
  /\ UNCHANGED <<songQuery, lineNo, environ, cfg, file, installed, mode,
                 limit, njobs, fate, spawned, enqueued, jobs, jobsClosed,
                 results, resultsClosed, wg, wpc, holding, errors, drained,
                 ret, halt, searchCalls, searchArgs, fetchCalls, fetchArgs,
                 ytDlpChecks, outcome>>

\* One iteration of the loop of getPlaylistVideos whose call.Do() succeeds:
\* the identifiers of the page are appended, and the loop ends when the
\* response carries no next page token.
FetchPage ==
  /\ Running
  /\ mainpc = "pages"
  /\ LET response == PlaylistItemsList(njobs, nextPageToken)
     IN  /\ cleanSongs' = cleanSongs \o response.Items
         /\ nextPageToken' = response.NextPageToken
         /\ mainpc' = IF response.NextPageToken = 0 THEN "start" ELSE "pages"
  /\ UNCHANGED <<songQuery, lineNo, environ, cfg, file, installed, mode,
                 limit, njobs, fate, spawned, enqueued, jobs, jobsClosed,
                 results, resultsClosed, wg, wpc, holding, errors, drained,
                 ret, halt, searchCalls, searchArgs, fetchCalls, fetchArgs,
                 ytDlpChecks, outcome>>

\* Mutant: the error is kept for the end and the pool is started on the
\* pages fetched so far.
FetchPageErrorGoesOn ==
  /\ Running
  /\ mainpc = "pages"
  /\ cleanSongs' = cleanSongs
  /\ ret' = BatchReturn("error fetching playlist items", 0)
  /\ mainpc' = "start"
  /\ UNCHANGED <<songQuery, lineNo, environ, cfg, file, nextPageToken,
                 installed, mode, limit, njobs, fate, spawned, enqueued, jobs,
                 jobsClosed, results, resultsClosed, wg, wpc, holding, errors,
                 drained, halt, searchCalls, searchArgs, fetchCalls,
                 fetchArgs, ytDlpChecks, outcome>>

\* call.Do() fails: getPlaylistVideos returns (nil, err) and
\* DownloadPlaylist returns that error.
FetchPageError ==
  /\ Running
  /\ mainpc = "pages"
  /\ cleanSongs' = <<>>
  /\ ret' = BatchReturn("error fetching playlist items", 0)
  /\ mainpc' = "done"
  /\ UNCHANGED <<songQuery, lineNo, environ, cfg, file, nextPageToken,
                 installed, mode, limit, njobs, fate, spawned, enqueued, jobs,
                 jobsClosed, results, resultsClosed, wg, wpc, holding, errors,
                 drained, halt, searchCalls, searchArgs, fetchCalls,
                 fetchArgs, ytDlpChecks, outcome>>

\* Mutant: the `len(cleanSongs) == 0` test is left out.
StartNoEmptyCheck ==
  /\ Running
  /\ mainpc = "start"
  /\ mainpc' = IF 1 <= limit THEN "spawn" ELSE "send"
  /\ UNCHANGED <<songQuery, lineNo, environ, cfg, file, nextPageToken,
                 cleanSongs, installed, mode, limit, njobs, fate, spawned,
                 enqueued, jobs, jobsClosed, results, resultsClosed, wg, wpc,
                 holding, errors, drained, ret, halt, searchCalls, searchArgs,
                 fetchCalls, fetchArgs, ytDlpChecks, outcome>>

\* DownloadSongList up to the channel creation: an empty list is an error.
\* DownloadPlaylist has no such test.
Start ==
  /\ Running
  /\ mainpc = "start"
  /\ IF mode = "songs" /\ njobs = 0
       THEN /\ ret' = BatchReturn("no valid songs", 0)
            /\ mainpc' = "done"
       ELSE /\ ret' = ret
            /\ mainpc' = IF 1 <= limit THEN "spawn" ELSE "send"
  /\ UNCHANGED <<songQuery, lineNo, environ, cfg, file, nextPageToken,
                 cleanSongs, installed, mode, limit, njobs, fate, spawned,
                 enqueued, jobs, jobsClosed, results, resultsClosed, wg, wpc,
                 holding, errors, drained, halt, searchCalls, searchArgs,
                 fetchCalls, fetchArgs, ytDlpChecks, outcome>>

\* Mutant: the spawn loop starts at w := 0 and starts one worker too many.
SpawnWorkerOffByOne ==
  /\ Running
  /\ mainpc = "spawn"
  /\ spawned <= limit
  /\ wg' = wg + 1
  /\ wpc' = [wpc EXCEPT ![spawned + 1] = "idle"]
  /\ spawned' = spawned + 1
  /\ mainpc' = IF spawned + 1 <= limit THEN "spawn" ELSE "send"
  /\ UNCHANGED <<songQuery, lineNo, environ, cfg, file, nextPageToken,
                 cleanSongs, installed, mode, limit, njobs, fate, enqueued,
                 jobs, jobsClosed, results, resultsClosed, holding, errors,
                 drained, ret, halt, searchCalls, searchArgs, fetchCalls,
                 fetchArgs, ytDlpChecks, outcome>>

\* Mutant: the spawn loop stops at the job count (w <= min(limit, njobs)).
SpawnWorkerUpToJobs ==
  /\ Running
  /\ mainpc = "spawn"
  /\ spawned + 1 <= Min(limit, njobs)
  /\ wg' = wg + 1
  /\ wpc' = [wpc EXCEPT ![spawned + 1] = "idle"]
  /\ spawned' = spawned + 1
  /\ mainpc' = IF spawned + 2 <= Min(limit, njobs) THEN "spawn" ELSE "send"
  /\ UNCHANGED <<songQuery, lineNo, environ, cfg, file, nextPageToken,
                 cleanSongs, installed, mode, limit, njobs, fate, enqueued,
                 jobs, jobsClosed, results, resultsClosed, holding, errors,
                 drained, ret, halt, searchCalls, searchArgs, fetchCalls,
                 fetchArgs, ytDlpChecks, outcome>>

\* One iteration of `for w := 1; w <= limit; w++ { wg.Add(1); go worker }`.
SpawnWorker ==
  /\ Running
  /\ mainpc = "spawn"
  /\ spawned + 1 <= limit
  /\ wg' = wg + 1
  /\ wpc' = [wpc EXCEPT ![spawned + 1] = "idle"]
  /\ spawned' = spawned + 1
  /\ mainpc' = IF spawned + 2 <= limit THEN "spawn" ELSE "send"
  /\ UNCHANGED <<songQuery, lineNo, environ, cfg, file, nextPageToken,
                 cleanSongs, installed, mode, limit, njobs, fate, enqueued,
                 jobs, jobsClosed, results, resultsClosed, holding, errors,
                 drained, ret, halt, searchCalls, searchArgs, fetchCalls,
                 fetchArgs, ytDlpChecks, outcome>>

\* Mutant: an entry that was sent before is not sent again.
SendJobDedup ==
  /\ Running
  /\ mainpc = "send"
  /\ enqueued < njobs
  /\ Len(jobs) < njobs
  /\ jobs' = IF \E i \in 1..enqueued : cleanSongs[i] = cleanSongs[enqueued + 1]
               THEN jobs
               ELSE Append(jobs, enqueued + 1)
  /\ enqueued' = enqueued + 1
  /\ UNCHANGED <<songQuery, lineNo, environ, cfg, file, nextPageToken,
                 cleanSongs, installed, mode, limit, njobs, fate, mainpc,
                 spawned, jobsClosed, results, resultsClosed, wg, wpc,
                 holding, errors, drained, ret, halt, searchCalls, searchArgs,
                 fetchCalls, fetchArgs, ytDlpChecks, outcome>>

\* One iteration of `for _, song := range cleanSongs { jobs <- song }`.
\* cap(jobs) = len(cleanSongs): the send blocks while the buffer is full.
SendJob ==
  /\ Running
  /\ mainpc = "send"
  /\ enqueued < njobs
  /\ Len(jobs) < njobs
  /\ jobs' = Append(jobs, enqueued + 1)
  /\ enqueued' = enqueued + 1
  /\ UNCHANGED <<songQuery, lineNo, environ, cfg, file, nextPageToken,
                 cleanSongs, installed, mode, limit, njobs, fate, mainpc,
                 spawned, jobsClosed, results, resultsClosed, wg, wpc,
                 holding, errors, drained, ret, halt, searchCalls, searchArgs,
                 fetchCalls, fetchArgs, ytDlpChecks, outcome>>

\* close(jobs), after the send loop.
CloseJobs ==
  /\ Running
  /\ mainpc = "send"
  /\ enqueued = njobs
  /\ jobsClosed' = TRUE
  /\ mainpc' = "wait"
  /\ UNCHANGED <<songQuery, lineNo, environ, cfg, file, nextPageToken,
                 cleanSongs, installed, mode, limit, njobs, fate, spawned,
                 enqueued, jobs, results, resultsClosed, wg, wpc, holding,
                 errors, drained, ret, halt, searchCalls, searchArgs,
                 fetchCalls, fetchArgs, ytDlpChecks, outcome>>

\* Mutant: no barrier, the main goroutine goes on while workers still run.
WaitReturnNoBarrier ==
  /\ Running
  /\ mainpc = "wait"
  /\ mainpc' = "closeResults"
  /\ UNCHANGED <<songQuery, lineNo, environ, cfg, file, nextPageToken,
                 cleanSongs, installed, mode, limit, njobs, fate, spawned,
                 enqueued, jobs, jobsClosed, results, resultsClosed, wg, wpc,
                 holding, errors, drained, ret, halt, searchCalls, searchArgs,
                 fetchCalls, fetchArgs, ytDlpChecks, outcome>>

\* wg.Wait() returns once the counter is zero.
WaitReturn ==
  /\ Running
  /\ mainpc = "wait"
  /\ wg = 0
  /\ mainpc' = "closeResults"
  /\ UNCHANGED <<songQuery, lineNo, environ, cfg, file, nextPageToken,
                 cleanSongs, installed, mode, limit, njobs, fate, spawned,
                 enqueued, jobs, jobsClosed, results, resultsClosed, wg, wpc,
                 holding, errors, drained, ret, halt, searchCalls, searchArgs,
                 fetchCalls, fetchArgs, ytDlpChecks, outcome>>

\* Mutant: the result channel is closed without waiting for the workers.
CloseResultsAtWait ==
  /\ Running
  /\ mainpc \in {"wait", "closeResults"}
  /\ resultsClosed' = TRUE
  /\ mainpc' = "collect"
  /\ UNCHANGED <<songQuery, lineNo, environ, cfg, file, nextPageToken,
                 cleanSongs, installed, mode, limit, njobs, fate, spawned,
                 enqueued, jobs, jobsClosed, results, wg, wpc, holding,
                 errors, drained, ret, halt, searchCalls, searchArgs,
                 fetchCalls, fetchArgs, ytDlpChecks, outcome>>

\* close(results).
CloseResults ==
  /\ Running
  /\ mainpc = "closeResults"
  /\ resultsClosed' = TRUE
  /\ mainpc' = "collect"
  /\ UNCHANGED <<songQuery, lineNo, environ, cfg, file, nextPageToken,
                 cleanSongs, installed, mode, limit, njobs, fate, spawned,
                 enqueued, jobs, jobsClosed, results, wg, wpc, holding,
                 errors, drained, ret, halt, searchCalls, searchArgs,
                 fetchCalls, fetchArgs, ytDlpChecks, outcome>>

\* One iteration of `for err := range results`: a non-nil error is counted
\* (DownloadSongList appends it to errors; DownloadPlaylist only logs it).
Collect ==
  /\ Running
  /\ mainpc = "collect"
  /\ results # <<>>
  /\ results' = Tail(results)
  /\ drained' = drained + 1
  /\ errors' = IF Head(results).err # "nil" /\ mode = "songs"
                 THEN errors + 1 ELSE errors
  /\ UNCHANGED <<songQuery, lineNo, environ, cfg, file, nextPageToken,
                 cleanSongs, installed, mode, limit, njobs, fate, mainpc,
                 spawned, enqueued, jobs, jobsClosed, resultsClosed, wg, wpc,
                 holding, ret, halt, searchCalls, searchArgs, fetchCalls,
                 fetchArgs, ytDlpChecks, outcome>>

\* Mutant: a single failure is not reported (len(errors) > 1).
BatchErrorMiscount(m, e) ==
  IF m = "songs" /\ e > 1 THEN BatchReturn("encountered errors", e)
                          ELSE BatchReturn("nil", 0)

\* The value returned once the range over the closed, empty results ends:
\* DownloadSongList returns "encountered %d errors" when len(errors) > 0,
\* DownloadPlaylist returns nil whatever was received.
BatchError(m, e) ==
  IF m = "songs" /\ e > 0 THEN BatchReturn("encountered errors", e)
                          ELSE BatchReturn("nil", 0)

Return ==
  /\ Running
  /\ mainpc = "collect"
  /\ results = <<>>
  /\ resultsClosed
  /\ ret' = BatchError(mode, errors)
  /\ mainpc' = "done"
  /\ UNCHANGED <<songQuery, lineNo, environ, cfg, file, nextPageToken,
                 cleanSongs, installed, mode, limit, njobs, fate, spawned,
                 enqueued, jobs, jobsClosed, results, resultsClosed, wg, wpc,
                 holding, errors, drained, halt, searchCalls, searchArgs,
                 fetchCalls, fetchArgs, ytDlpChecks, outcome>>

\* ------------------------------------------------------------- workers

\* `results <- e` by a worker holding job j: a send on a closed channel
\* panics; otherwise the value joins the buffer (cap(results) = njobs).
CanSend == resultsClosed \/ Len(results) < njobs

\* Mutant: a success is not reported (`results <- nil` left out).
SendResultDropNil(j, e, a) ==
  IF resultsClosed
    THEN /\ halt' = "panic"
         /\ UNCHANGED <<results, outcome>>
    ELSE IF e = "nil"
      THEN UNCHANGED <<results, outcome, halt>>
      ELSE /\ results' = Append(results, Result(j, e, a))
           /\ outcome' = [outcome EXCEPT ![j] = Append(@, e)]
           /\ halt' = halt

\* Mutant: the newest value is put at the head of the buffer.
SendResultPrepend(j, e, a) ==
  IF resultsClosed
    THEN /\ halt' = "panic"
         /\ UNCHANGED <<results, outcome>>
    ELSE /\ results' = <<Result(j, e, a)>> \o results
         /\ outcome' = [outcome EXCEPT ![j] = Append(@, e)]
         /\ halt' = halt

\* Mutant: the value is sent twice.
SendResultTwice(j, e, a) ==
  IF resultsClosed
    THEN /\ halt' = "panic"
         /\ UNCHANGED <<results, outcome>>
    ELSE /\ results' = results \o <<Result(j, e, a), Result(j, e, a)>>
         /\ outcome' = [outcome EXCEPT ![j] = @ \o <<e, e>>]
         /\ halt' = halt

SendResult(j, e, a) ==
  IF resultsClosed
    THEN /\ halt' = "panic"
         /\ UNCHANGED <<results, outcome>>
    ELSE /\ results' = Append(results, Result(j, e, a))
         /\ outcome' = [outcome EXCEPT ![j] = Append(@, e)]
         /\ halt' = halt

\* Mutant: the song text is searched as it is.
QueryBare(song) == song

\* song+" audio": the query text songWorker hands to SearchVideos.
Query(song) == song \o Audio

\* A SearchVideos call for job j with query q.
CallSearch(j, q) ==
  /\ searchCalls' = [searchCalls EXCEPT ![j] = @ + 1]
  /\ searchArgs' = [searchArgs EXCEPT ![j] = Append(@, q)]

NoSearch == UNCHANGED <<searchCalls, searchArgs>>

\* A call of DownloadAudio(id) / DownloadFunction(id) for job j begins: the
\* first thing DownloadAudio does is checkYtDlpInstalled().
CallDownload(j, id) ==
  /\ fetchCalls' = [fetchCalls EXCEPT ![j] = @ + 1]
  /\ fetchArgs' = [fetchArgs EXCEPT ![j] = Append(@, id)]
  /\ ytDlpChecks' = ytDlpChecks + 1

NoDownload == UNCHANGED <<fetchCalls, fetchArgs, ytDlpChecks>>

\* Mutant: the worker takes the newest job of the buffer, not the oldest.
DequeueLast(w) ==
  /\ Running
  /\ wpc[w] = "idle"
  /\ jobs # <<>>
  /\ jobs' = SubSeq(jobs, 1, Len(jobs) - 1)
  /\ holding' = [holding EXCEPT ![w] = jobs[Len(jobs)]]
  /\ IF mode = "songs"
       THEN /\ wpc' = [wpc EXCEPT ![w] = "search"]
            /\ CallSearch(jobs[Len(jobs)], Query(cleanSongs[jobs[Len(jobs)]]))
            /\ NoDownload
       ELSE /\ wpc' = [wpc EXCEPT ![w] = "fetch"]
            /\ CallDownload(jobs[Len(jobs)], EntryId(jobs[Len(jobs)]))
            /\ NoSearch
  /\ UNCHANGED <<songQuery, lineNo, environ, cfg, file, nextPageToken,
                 cleanSongs, installed, mode, limit, njobs, fate, mainpc,
                 spawned, enqueued, jobsClosed, results, resultsClosed, wg,
                 errors, drained, ret, halt, outcome>>

\* Mutant: the received job stays in the buffer.
DequeuePeek(w) ==
  /\ Running
  /\ wpc[w] = "idle"
  /\ jobs # <<>>
  /\ jobs' = jobs
  /\ holding' = [holding EXCEPT ![w] = Head(jobs)]
  /\ IF mode = "songs"
       THEN /\ wpc' = [wpc EXCEPT ![w] = "search"]
            /\ CallSearch(Head(jobs), Query(cleanSongs[Head(jobs)]))
            /\ NoDownload
       ELSE /\ wpc' = [wpc EXCEPT ![w] = "fetch"]
            /\ CallDownload(Head(jobs), EntryId(Head(jobs)))
            /\ NoSearch
  /\ UNCHANGED <<songQuery, lineNo, environ, cfg, file, nextPageToken,
                 cleanSongs, installed, mode, limit, njobs, fate, mainpc,
                 spawned, enqueued, jobsClosed, results, resultsClosed, wg,
                 errors, drained, ret, halt, outcome>>

\* Mutant: the playlist worker treats the identifier as a query and searches.
DequeueResolves(w) ==
  /\ Running
  /\ wpc[w] = "idle"
  /\ jobs # <<>>
  /\ jobs' = Tail(jobs)
  /\ holding' = [holding EXCEPT ![w] = Head(jobs)]
  /\ wpc' = [wpc EXCEPT ![w] = "search"]
  /\ CallSearch(Head(jobs), Query(cleanSongs[Head(jobs)]))
  /\ NoDownload
  /\ UNCHANGED <<songQuery, lineNo, environ, cfg, file, nextPageToken,
                 cleanSongs, installed, mode, limit, njobs, fate, mainpc,
                 spawned, enqueued, jobsClosed, results, resultsClosed, wg,
                 errors, drained, ret, halt, outcome>>

\* `for song := range jobs` receives the next job; songWorker then calls
\* SearchVideos, the playlist worker calls DownloadFunction at once.
Dequeue(w) ==
  /\ Running
  /\ wpc[w] = "idle"
  /\ jobs # <<>>
  /\ jobs' = Tail(jobs)
  /\ holding' = [holding EXCEPT ![w] = Head(jobs)]
  /\ IF mode = "songs"
       THEN /\ wpc' = [wpc EXCEPT ![w] = "search"]
            /\ CallSearch(Head(jobs), Query(cleanSongs[Head(jobs)]))
            /\ NoDownload
       ELSE /\ wpc' = [wpc EXCEPT ![w] = "fetch"]
            /\ CallDownload(Head(jobs), EntryId(Head(jobs)))
            /\ NoSearch
  /\ UNCHANGED <<songQuery, lineNo, environ, cfg, file, nextPageToken,
                 cleanSongs, installed, mode, limit, njobs, fate, mainpc,
                 spawned, enqueued, jobsClosed, results, resultsClosed, wg,
                 errors, drained, ret, halt, outcome>>

\* Mutant: the worker returns without wg.Done().
WorkerExitNoDone(w) ==
  /\ Running
  /\ wpc[w] = "idle"
  /\ jobs = <<>>
  /\ jobsClosed
  /\ wpc' = [wpc EXCEPT ![w] = "exited"]
  /\ UNCHANGED <<songQuery, lineNo, environ, cfg, file, nextPageToken,
                 cleanSongs, installed, mode, limit, njobs, fate, mainpc,
                 spawned, enqueued, jobs, jobsClosed, results, resultsClosed,
                 wg, holding, errors, drained, ret, halt, searchCalls,
                 searchArgs, fetchCalls, fetchArgs, ytDlpChecks, outcome>>

\* Mutant: the worker returns as soon as it finds the queue empty.
WorkerExitEarly(w) ==
  /\ Running
  /\ wpc[w] = "idle"
  /\ jobs = <<>>
  /\ wpc' = [wpc EXCEPT ![w] = "exited"]
  /\ wg' = wg - 1
  /\ UNCHANGED <<songQuery, lineNo, environ, cfg, file, nextPageToken,
                 cleanSongs, installed, mode, limit, njobs, fate, mainpc,
                 spawned, enqueued, jobs, jobsClosed, results, resultsClosed,
                 holding, errors, drained, ret, halt, searchCalls, searchArgs,
                 fetchCalls, fetchArgs, ytDlpChecks, outcome>>

\* The range ends when jobs is closed and empty; the deferred wg.Done() runs.
WorkerExit(w) ==
  /\ Running
  /\ wpc[w] = "idle"
  /\ jobs = <<>>
  /\ jobsClosed
  /\ wpc' = [wpc EXCEPT ![w] = "exited"]
  /\ wg' = wg - 1
  /\ UNCHANGED <<songQuery, lineNo, environ, cfg, file, nextPageToken,
                 cleanSongs, installed, mode, limit, njobs, fate, mainpc,
                 spawned, enqueued, jobs, jobsClosed, results, resultsClosed,
                 holding, errors, drained, ret, halt, searchCalls, searchArgs,
                 fetchCalls, fetchArgs, ytDlpChecks, outcome>>

\* Mutant: the `len(videos) == 0` test is left out.
SearchFailureNoEmptyCheck(f) ==
  IF f = "searchErr" THEN "search failed" ELSE "none"

\* Mutant: the `err != nil` test after SearchVideos is left out.
SearchFailureIgnoreErr(f) ==
  IF f = "notFound" THEN "no videos found" ELSE "none"

\* What songWorker reports right after SearchVideos has answered f:
\* "search failed for '%s'" on an error, "no videos found for '%s'" on an
\* empty list, nothing ("none") when there is a first video to download.
SearchFailure(f) ==
  IF f = "searchErr" THEN "search failed"
  ELSE IF f = "notFound" THEN "no videos found"
  ELSE "none"

\* Mutant: the last candidate is downloaded instead of the first.
LastVideo(vs) == vs[Len(vs)]

\* videos[0].ID: the candidate songWorker downloads.
FirstVideo(vs) == vs[1]

\* A list of n candidates that a successful SearchVideos call returns for
\* job j, in provider order.
Videos(j, n) == [r \in 1..n |-> CandidateId(j, r)]

\* SearchVideos returns to songWorker: an error or an empty list is reported
\* and the loop continues; otherwise DownloadAudio(videos[0].ID) is called.
SearchReturn(w) ==
  /\ Running
  /\ wpc[w] = "search"
  /\ LET j == holding[w] IN
       IF SearchFailure(fate[j]) # "none"
         THEN /\ CanSend
              /\ SendResult(j, SearchFailure(fate[j]), j)
              /\ wpc' = [wpc EXCEPT ![w] = "idle"]
              /\ holding' = [holding EXCEPT ![w] = 0]
              /\ NoDownload
         ELSE /\ wpc' = [wpc EXCEPT ![w] = "fetch"]
              /\ \E n \in VideoCounts : CallDownload(j, FirstVideo(Videos(j, n)))
              /\ UNCHANGED <<results, outcome, halt, holding>>
  /\ UNCHANGED <<songQuery, lineNo, environ, cfg, file, nextPageToken,
                 cleanSongs, installed, mode, limit, njobs, fate, mainpc,
                 spawned, enqueued, jobs, jobsClosed, resultsClosed, wg,
                 errors, drained, ret, searchCalls, searchArgs>>

\* Mutant: the error of cmd.Start() is returned as `err`, which is nil there.
DownloadAudioStartNil(inst, f) ==
  IF ~inst THEN "yt-dlp not found"
  ELSE IF f = "pipeErr" THEN "error creating pipe"
  ELSE IF f = "startErr" THEN "nil"
  ELSE IF f = "ok" THEN "nil"
  ELSE "yt-dlp download failed"

\* What DownloadAudio returns: "yt-dlp not found" when checkYtDlpInstalled
\* fails; else an error when a pipe cannot be made ("pipeErr"), when
\* cmd.Start() fails ("startErr": fmt.Errorf wraps the nil `err`, the value
\* returned is an error all the same) or when cmd.Wait() reports a failed
\* exit; else nil.
DownloadAudio(inst, f) ==
  IF ~inst THEN "yt-dlp not found"
  ELSE IF f = "pipeErr" THEN "error creating pipe"
  ELSE IF f = "startErr" THEN "error starting yt-dlp"
  ELSE IF f = "ok" THEN "nil"
  ELSE "yt-dlp download failed"

\* Mutant: a failed download ends the worker (return instead of the next
\* iteration); the deferred wg.Done() runs.
FetchReturnAbort(w) ==
  /\ Running
  /\ wpc[w] = "fetch"
  /\ CanSend
  /\ LET j == holding[w] IN
       IF fate[j] = "ok"
         THEN /\ SendResult(j, "nil", 0)
              /\ wpc' = [wpc EXCEPT ![w] = "idle"]
              /\ wg' = wg
         ELSE /\ SendResult(j, "download failed", IF mode = "songs" THEN j ELSE 0)
              /\ wpc' = [wpc EXCEPT ![w] = "exited"]
              /\ wg' = wg - 1
  /\ holding' = [holding EXCEPT ![w] = 0]
  /\ UNCHANGED <<songQuery, lineNo, environ, cfg, file, nextPageToken,
                 cleanSongs, installed, mode, limit, njobs, fate, mainpc,
                 spawned, enqueued, jobs, jobsClosed, resultsClosed, errors,
                 drained, ret, searchCalls, searchArgs, fetchCalls, fetchArgs,
                 ytDlpChecks>>

\* Mutant: a failed download is tried a second time before it is reported.
FetchReturnRetryOnce(w) ==
  /\ Running
  /\ wpc[w] = "fetch"
  /\ LET j == holding[w] IN
       IF DownloadAudio(installed, fate[j]) # "nil" /\ fetchCalls[j] < 2
         THEN /\ CallDownload(j, fetchArgs[j][1])
              /\ UNCHANGED <<results, outcome, halt, wpc, holding>>
         ELSE /\ CanSend
              /\ SendResult(j, IF DownloadAudio(installed, fate[j]) = "nil"
                                 THEN "nil" ELSE "download failed",
                             IF mode = "songs" THEN j ELSE 0)
              /\ wpc' = [wpc EXCEPT ![w] = "idle"]
              /\ holding' = [holding EXCEPT ![w] = 0]
              /\ NoDownload
  /\ UNCHANGED <<songQuery, lineNo, environ, cfg, file, nextPageToken,
                 cleanSongs, installed, mode, limit, njobs, fate, mainpc,
                 spawned, enqueued, jobs, jobsClosed, resultsClosed, wg,
                 errors, drained, ret, searchCalls, searchArgs>>

\* The download returns: songWorker sends nil or "download failed for '%s'",
\* the playlist worker sends the error of DownloadFunction as it is.
FetchReturn(w) ==
  /\ Running
  /\ wpc[w] = "fetch"
  /\ CanSend
  /\ LET j == holding[w]
         err == DownloadAudio(installed, fate[j])
     IN IF err = "nil"
          THEN SendResult(j, "nil", 0)
          ELSE IF mode = "songs"
                 THEN SendResult(j, "download failed", j)
                 ELSE SendResult(j, err, 0)
  /\ wpc' = [wpc EXCEPT ![w] = "idle"]
  /\ holding' = [holding EXCEPT ![w] = 0]
  /\ UNCHANGED <<songQuery, lineNo, environ, cfg, file, nextPageToken,
                 cleanSongs, installed, mode, limit, njobs, fate, mainpc,
                 spawned, enqueued, jobs, jobsClosed, resultsClosed, wg,
                 errors, drained, ret, searchCalls, searchArgs, fetchCalls,
                 fetchArgs, ytDlpChecks>>

\* Inside DownloadAudio, once checkYtDlpInstalled has passed, getDownloadPath
\* calls log.Fatalf when the home directory cannot be found or the download
\* directory cannot be created: the process exits, every goroutine with it.
FetchFatal(w) ==
  /\ Running
  /\ wpc[w] = "fetch"
  /\ installed
  /\ halt' = "fatal"
  /\ UNCHANGED <<songQuery, lineNo, environ, cfg, file, nextPageToken,
                 cleanSongs, installed, mode, limit, njobs, fate, mainpc,
                 spawned, enqueued, jobs, jobsClosed, results, resultsClosed,
                 wg, wpc, holding, errors, drained, ret, searchCalls,
                 searchArgs, fetchCalls, fetchArgs, ytDlpChecks, outcome>>

MainStep ==
  \/ FetchPage
  \/ FetchPageError
  \/ Start
  \/ SpawnWorker
  \/ SendJob
  \/ CloseJobs
  \/ WaitReturn
  \/ CloseResults
  \/ Collect
  \/ Return

WorkerStep(w) ==
  \/ Dequeue(w)
  \/ WorkerExit(w)
  \/ SearchReturn(w)
  \/ FetchReturn(w)

Next ==
  \/ MainStep
  \/ \E w \in WorkerIds : WorkerStep(w)
  \/ \E w \in WorkerIds : FetchFatal(w)

Spec == Init /\ [][Next]_vars

\* The Go scheduler runs every runnable goroutine, and the external calls
\* are assumed to return.
FairSpec ==
  /\ Spec
  /\ WF_vars(MainStep)
  /\ \A w \in WorkerIds : WF_vars(WorkerStep(w))

\* ================================================================ claims

\* ------------------------------------------------------------ job source
\* The front of a song batch: config.ParseFlags reads the API key, then
\* DownloadSongList builds cleanSongs from -m or from the CSV file.

\* unicode.IsSpace, for the characters of the model.
IsSpace(c) == c \in {" ", "\t"}

RECURSIVE TrimLeft(_)
TrimLeft(s) ==
  IF s # <<>> /\ IsSpace(Head(s)) THEN TrimLeft(Tail(s)) ELSE s

RECURSIVE TrimRight(_)
TrimRight(s) ==
  IF s # <<>> /\ IsSpace(s[Len(s)])
    THEN TrimRight(SubSeq(s, 1, Len(s) - 1))
    ELSE s

\* Mutant: only leading white space is removed.
TrimSpaceLeftOnly(s) == TrimLeft(s)

\* strings.TrimSpace
TrimSpace(s) == TrimRight(TrimLeft(s))

UpperLetters ==
  <<"A", "B", "C", "D", "E", "F", "G", "H", "I", "J", "K", "L", "M",
    "N", "O", "P", "Q", "R", "S", "T", "U", "V", "W", "X", "Y", "Z">>

LowerLetters ==
  <<"a", "b", "c", "d", "e", "f", "g", "h", "i", "j", "k", "l", "m",
    "n", "o", "p", "q", "r", "s", "t", "u", "v", "w", "x", "y", "z">>

LowerChar(c) ==
  IF \E i \in 1..Len(UpperLetters) : UpperLetters[i] = c
    THEN LowerLetters[CHOOSE i \in 1..Len(UpperLetters) : UpperLetters[i] = c]
    ELSE c

\* strings.ToLower
ToLower(s) == [i \in 1..Len(s) |-> LowerChar(s[i])]

\* strings.Split(s, sep) for a separator of one character: the pieces of s
\* between the separators, empty pieces included.
RECURSIVE Split(_, _)
Split(s, sep) ==
  IF \A k \in 1..Len(s) : s[k] # sep[1]
    THEN <<s>>
    ELSE LET k == CHOOSE i \in 1..Len(s) :
                    s[i] = sep[1] /\ \A h \in 1..(i - 1) : s[h] # sep[1]
         IN  <<SubSeq(s, 1, k - 1)>> \o Split(SubSeq(s, k + 1, Len(s)), sep)

\* Mutant: entries that are empty after trimming are kept.
RECURSIVE CleanEntriesKeepEmpty(_)
CleanEntriesKeepEmpty(songs) ==
  IF songs = <<>> THEN <<>>
  ELSE <<TrimSpace(Head(songs))>> \o CleanEntriesKeepEmpty(Tail(songs))

\* The loop of DownloadSongList over the pieces: each is trimmed and
\* appended to cleanSongs unless it is empty.
RECURSIVE CleanEntries(_)
CleanEntries(songs) ==
  IF songs = <<>> THEN <<>>
  ELSE LET song == TrimSpace(Head(songs))
       IN  (IF song # <<>> THEN <<song>> ELSE <<>>)
             \o CleanEntries(Tail(songs))

\* csv.Reader.ReadAll with the default FieldsPerRecord: every record must
\* have as many fields as the first, or the read fails.
ReadAll(rows) ==
  IF \A i \in 1..Len(rows) : Len(rows[i]) = Len(rows[1])
    THEN [records |-> rows, err |-> "nil"]
    ELSE [records |-> <<>>, err |-> "wrong number of fields"]

\* Mutant: a header is looked for in every row.
IsHeaderAnyRow(i, record) ==
  /\ Len(record) >= 2
  /\ \/ ToLower(record[1]) = <<"a", "r", "t", "i", "s", "t">>
     \/ ToLower(record[2]) = <<"s", "o", "n", "g">>

\* The header test of readSongsFromCSV for the i-th record (i counts from
\* 1 here, from 0 in the source).
IsHeader(i, record) ==
  /\ i = 1
  /\ Len(record) >= 2
  /\ \/ ToLower(record[1]) = <<"a", "r", "t", "i", "s", "t">>
     \/ ToLower(record[2]) = <<"s", "o", "n", "g">>

\* fmt.Sprintf("%s - %s", artist, song)
SongQuery(artist, song) == artist \o <<" ", "-", " ">> \o song

\* Mutant: a row is kept when one of its two fields is not empty.
RowSongsEitherField(record) ==
  IF Len(record) >= 2
    THEN LET artist == TrimSpace(record[1])
             song == TrimSpace(record[2])
         IN  IF artist # <<>> \/ song # <<>>
               THEN <<SongQuery(artist, song)>>
               ELSE <<>>
    ELSE <<>>

\* What one data record adds to songs: the query of its first two fields,
\* or nothing if it has fewer than two fields or one of them is blank.
RowSongs(record) ==
  IF Len(record) >= 2
    THEN LET artist == TrimSpace(record[1])
             song == TrimSpace(record[2])
         IN  IF artist # <<>> /\ song # <<>>
               THEN <<SongQuery(artist, song)>>
               ELSE <<>>
    ELSE <<>>

\* The loop of readSongsFromCSV from record i on.
RECURSIVE ReadRecords(_, _)
ReadRecords(records, i) ==
  IF i > Len(records) THEN <<>>
  ELSE IF IsHeader(i, records[i]) THEN ReadRecords(records, i + 1)
  ELSE RowSongs(records[i]) \o ReadRecords(records, i + 1)

readSongsFromCSV(f) ==
  IF ~f.exists THEN [songs |-> <<>>, err |-> "error opening CSV file"]
  ELSE IF ReadAll(f.rows).err # "nil"
    THEN [songs |-> <<>>, err |-> "error reading CSV file"]
  ELSE [songs |-> ReadRecords(ReadAll(f.rows).records, 1), err |-> "nil"]

\* The characters of a value of -m, and the values of n characters.
ListChars == {"A", "B", " ", ","}

ListTexts(n) == [1..n -> ListChars]

\* The fields of the CSV files: empty, blank, the two header labels in
\* other cases, a label behind a space, and a name followed by a space.
Fields ==
  { <<>>, <<" ">>,
    <<"A", "r", "t", "i", "s", "t">>,
    <<"S", "O", "N", "G">>,
    <<" ", "s", "o", "n", "g">>,
    <<"J", " ">> }

\* Rows of one field, of two fields, and two rows of three fields.
Rows ==
  [1..1 -> Fields] \cup [1..2 -> Fields]
    \cup { << <<"J", " ">>, <<" ", "s", "o", "n", "g">>, <<"x">> >>,
           << <<"A", "r", "t", "i", "s", "t">>, <<"S", "O", "N", "G">>, <<"x">> >> }

\* The CSV files of n rows.
CsvFiles(n) == [1..n -> Rows]

CsvFileName == <<"f">>

\* The state before ParseFlags, for the environment and the flags given.
SourceStart(env, songList, csvFile, f) ==
  /\ environ = env
  /\ cfg = Config(<<>>, FALSE, <<>>, <<>>, songList, csvFile, FALSE)
  /\ songQuery = <<>>
  /\ lineNo = 0
  /\ file = f
  /\ mode = "none"
  /\ limit = 1
  /\ njobs = 0
  /\ installed = TRUE
  /\ fate = <<>>
  /\ mainpc = "flags"
  /\ nextPageToken = 0
  /\ cleanSongs = <<>>
  /\ searchArgs = <<>>
  /\ spawned = 0
  /\ enqueued = 0
  /\ jobs = <<>>
  /\ jobsClosed = FALSE
  /\ results = <<>>
  /\ resultsClosed = FALSE
  /\ wg = 0
  /\ wpc = [w \in WorkerIds |-> "unborn"]
  /\ holding = [w \in WorkerIds |-> 0]
  /\ errors = 0
  /\ drained = 0
  /\ ret = NotReturned
  /\ halt = "no"
  /\ searchCalls = <<>>
  /\ fetchCalls = <<>>
  /\ outcome = <<>>
  /\ fetchArgs = <<>>
  /\ ytDlpChecks = 0

KeySet == [api_key |-> ApiKey, youtube_api_key |-> <<>>]

\* The inputs: the four settings of the two environment variables on a
\* one-song list, and with api_key set every -m text and every CSV file.
SourceInit ==
  \/ \E a \in {<<>>, ApiKey}, y \in {<<>>, <<"Y">>} :
       SourceStart([api_key |-> a, youtube_api_key |-> y],
                   <<"A">>, <<>>, NoFile)
  \/ \E n \in 0..MaxText : \E t \in ListTexts(n) :
       SourceStart(KeySet, t, <<>>, NoFile)
  \/ \E n \in 0..MaxRows : \E rows \in CsvFiles(n) :
       SourceStart(KeySet, <<>>, CsvFileName, File(rows))
  \/ SourceStart(KeySet, <<>>, CsvFileName, NoFile)

\* config.ParseFlags after pflag.Parse(): cfg.APIKey = os.Getenv("api_key"),
\* log.Fatal if it is empty; then -s sets Query and SongMode, and -m or
\* --csv-file set SongListMode.  main goes on with run(cfg).
ParseFlags ==
  /\ Running
  /\ mainpc = "flags"
  /\ IF environ.api_key = <<>>
       THEN /\ cfg' = [cfg EXCEPT !.APIKey = environ.api_key]
            /\ halt' = "fatal"
            /\ mainpc' = mainpc
       ELSE /\ cfg' = [cfg EXCEPT
                         !.APIKey = environ.api_key,
                         !.Query = IF songQuery # <<>> THEN songQuery ELSE @,
                         !.SongMode = songQuery # <<>>,
                         !.SongListMode =
                            cfg.SongList # <<>> \/ cfg.SongCSVFile # <<>>]
            /\ halt' = halt
            /\ mainpc' = "run"
  /\ UNCHANGED <<songQuery, lineNo, environ, file, nextPageToken, cleanSongs,
                 installed, mode, limit, njobs, fate, spawned, enqueued, jobs,
                 jobsClosed, results, resultsClosed, wg, wpc, holding, errors,
                 drained, ret, searchCalls, searchArgs, fetchCalls, fetchArgs,
                 ytDlpChecks, outcome>>

\* Mutant: a text file is served before a song list.
RunModeFileFirst(c) ==
  IF c.ShowHelp THEN "help"
  ELSE IF /\ c.Query = <<>> /\ c.FilePath = <<>>
          /\ c.PlaylistID = <<>> /\ ~c.SongListMode THEN "help"
  ELSE IF c.PlaylistID # <<>> THEN "playlist"
  ELSE IF c.FilePath # <<>> THEN "file"
  ELSE IF c.SongListMode THEN "songs"
  ELSE IF c.Query = <<>> THEN "help"
  ELSE IF c.ListMode THEN "list"
  ELSE IF c.SongMode THEN "song"
  ELSE "direct"

\* The branch run(cfg) takes: the two help tests, then the cases of the
\* switch in their order.
RunMode(c) ==
  IF c.ShowHelp THEN "help"
  ELSE IF /\ c.Query = <<>> /\ c.FilePath = <<>>
          /\ c.PlaylistID = <<>> /\ ~c.SongListMode THEN "help"
  ELSE IF c.PlaylistID # <<>> THEN "playlist"
  ELSE IF c.SongListMode THEN "songs"
  ELSE IF c.FilePath # <<>> THEN "file"
  ELSE IF c.Query = <<>> THEN "help"
  ELSE IF c.ListMode THEN "list"
  ELSE IF c.SongMode THEN "song"
  ELSE "direct"

\* Where the main goroutine stands once run has entered the function of
\* mode m: help has returned; the default case is inside
\* DownloadAudio(cfg.Query).
EntryOf(m) ==
  CASE m = "help" -> "done"
    [] m = "playlist" -> "pages"
    [] m = "songs" -> "source"
    [] m = "file" -> "file"
    [] m = "list" -> "list"
    [] m = "song" -> "song"
    [] m = "direct" -> "audio"

\* run(cfg): help returns nil at once, every other branch calls the
\* function of its mode.
Run ==
  /\ Running
  /\ mainpc = "run"
  /\ mode' = RunMode(cfg)
  /\ mainpc' = EntryOf(RunMode(cfg))
  /\ ret' = IF RunMode(cfg) = "help" THEN BatchReturn("nil", 0) ELSE ret
  /\ IF RunMode(cfg) = "direct"
       THEN CallDownload(1, cfg.Query)
       ELSE NoDownload
  /\ UNCHANGED <<songQuery, lineNo, environ, cfg, file, nextPageToken,
                 cleanSongs, installed, limit, njobs, fate, spawned, enqueued,
                 jobs, jobsClosed, results, resultsClosed, wg, wpc, holding,
                 errors, drained, halt, searchCalls, searchArgs, outcome>>

\* DownloadSongList with cfg.SongCSVFile set: cleanSongs is what
\* readSongsFromCSV returns, and its error ends the batch.
ReadCSV ==
  /\ Running
  /\ mainpc = "source"
  /\ cfg.SongCSVFile # <<>>
  /\ LET r == readSongsFromCSV(file)
     IN  IF r.err # "nil"
           THEN /\ ret' = BatchReturn("error reading CSV file", 0)
                /\ mainpc' = "done"
                /\ cleanSongs' = cleanSongs
           ELSE /\ ret' = ret
                /\ mainpc' = "listed"
                /\ cleanSongs' = r.songs
  /\ UNCHANGED <<songQuery, lineNo, environ, cfg, file, nextPageToken,
                 installed, mode, limit, njobs, fate, spawned, enqueued, jobs,
                 jobsClosed, results, resultsClosed, wg, wpc, holding, errors,
                 drained, halt, searchCalls, searchArgs, fetchCalls,
                 fetchArgs, ytDlpChecks, outcome>>

\* DownloadSongList without a CSV file: cfg.SongList is split at the
\* commas and cleaned.
SplitSongList ==
  /\ Running
  /\ mainpc = "source"
  /\ cfg.SongCSVFile = <<>>
  /\ cleanSongs' = CleanEntries(Split(cfg.SongList, Comma))
  /\ mainpc' = "listed"
  /\ UNCHANGED <<songQuery, lineNo, environ, cfg, file, nextPageToken,
                 installed, mode, limit, njobs, fate, spawned, enqueued, jobs,
                 jobsClosed, results, resultsClosed, wg, wpc, holding, errors,
                 drained, ret, halt, searchCalls, searchArgs, fetchCalls,
                 fetchArgs, ytDlpChecks, outcome>>

SourceNext ==
  \/ ParseFlags
  \/ Run
  \/ ReadCSV
  \/ SplitSongList

SourceSpec == SourceInit /\ [][SourceNext]_vars

\* --------------------------------------------------- run and its modes
\* One invocation from main: ParseFlags, run, and the functions run calls
\* in the main goroutine: ProcessFile, ListVideos, SearchAndDownloadSong
\* and DownloadAudio.  The two batch functions are entered here and
\* followed in Spec and SourceSpec.

Newline == <<"\n">>

\* The file of -f as os.ReadFile returns it.
TextFile(text) == [exists |-> TRUE, text |-> text]

FileName == <<"q">>

\* queries := strings.Split(string(content), "\n")
queries == Split(file.text, Newline)

\* What the external calls of one invocation may answer.
RunFates == {"searchErr", "notFound", "pipeErr", "startErr", "fetchErr", "ok"}

\* The candidates of a successful SearchVideos call for the query text q.
VideosFor(q, n) == [r \in 1..n |-> <<q, r>>]

\* ProcessFile: os.ReadFile; its error is returned, else the loop begins.
ReadFile ==
  /\ Running
  /\ mainpc = "file"
  /\ IF file.exists
       THEN /\ lineNo' = 1
            /\ mainpc' = "line"
            /\ ret' = ret
       ELSE /\ lineNo' = lineNo
            /\ mainpc' = "done"
            /\ ret' = BatchReturn("error reading file", 0)
  /\ UNCHANGED <<songQuery, environ, cfg, file, nextPageToken, cleanSongs,
                 installed, mode, limit, njobs, fate, spawned, enqueued, jobs,
                 jobsClosed, results, resultsClosed, wg, wpc, holding, errors,
                 drained, halt, searchCalls, searchArgs, fetchCalls, fetchArgs,
                 ytDlpChecks, outcome>>

\* A line that is empty after TrimSpace: `continue`.
ProcessFileSkip ==
  /\ Running
  /\ mainpc = "line"
  /\ lineNo <= Len(queries)
  /\ TrimSpace(queries[lineNo]) = <<>>
  /\ lineNo' = lineNo + 1
  /\ UNCHANGED <<songQuery, environ, cfg, file, nextPageToken, cleanSongs,
                 installed, mode, limit, njobs, fate, mainpc, spawned,
                 enqueued, jobs, jobsClosed, results, resultsClosed, wg, wpc,
                 holding, errors, drained, ret, halt, searchCalls, searchArgs,
                 fetchCalls, fetchArgs, ytDlpChecks, outcome>>

\* Any other line: youtube.SearchVideos(query, cfg.APIKey) is called with the
\* trimmed line.
ProcessFileSearch ==
  /\ Running
  /\ mainpc = "line"
  /\ lineNo <= Len(queries)
  /\ TrimSpace(queries[lineNo]) # <<>>
  /\ CallSearch(lineNo, TrimSpace(queries[lineNo]))
  /\ mainpc' = "lineSearch"
  /\ UNCHANGED <<songQuery, lineNo, environ, cfg, file, nextPageToken,
                 cleanSongs, installed, mode, limit, njobs, fate, spawned,
                 enqueued, jobs, jobsClosed, results, resultsClosed, wg, wpc,
                 holding, errors, drained, ret, halt, fetchCalls, fetchArgs,
                 ytDlpChecks, outcome>>

\* SearchVideos returns to ProcessFile: an error or an empty list is logged
\* and the loop goes on; otherwise DownloadAudio(videos[0].ID) is called.
ProcessFileSearchReturn ==
  /\ Running
  /\ mainpc = "lineSearch"
  /\ IF SearchFailure(fate[lineNo]) # "none"
       THEN /\ outcome' = [outcome EXCEPT
                             ![lineNo] = Append(@, SearchFailure(fate[lineNo]))]
            /\ lineNo' = lineNo + 1
            /\ mainpc' = "line"
            /\ NoDownload
       ELSE /\ \E n \in VideoCounts :
                 CallDownload(lineNo,
                   FirstVideo(VideosFor(TrimSpace(queries[lineNo]), n)))
            /\ mainpc' = "lineFetch"
            /\ UNCHANGED <<outcome, lineNo>>
  /\ UNCHANGED <<songQuery, environ, cfg, file, nextPageToken, cleanSongs,
                 installed, mode, limit, njobs, fate, spawned, enqueued, jobs,
                 jobsClosed, results, resultsClosed, wg, wpc, holding, errors,
                 drained, ret, halt, searchCalls, searchArgs>>

\* Mutant: the error of DownloadAudio is returned by ProcessFile.
ProcessFileDownloadReturnStops ==
  /\ Running
  /\ mainpc = "lineFetch"
  /\ outcome' = [outcome EXCEPT
                   ![lineNo] = Append(@, DownloadAudio(installed, fate[lineNo]))]
  /\ IF DownloadAudio(installed, fate[lineNo]) = "nil"
       THEN /\ lineNo' = lineNo + 1
            /\ mainpc' = "line"
            /\ ret' = ret
       ELSE /\ lineNo' = lineNo
            /\ mainpc' = "done"
            /\ ret' = BatchReturn(DownloadAudio(installed, fate[lineNo]), 0)
  /\ UNCHANGED <<songQuery, environ, cfg, file, nextPageToken, cleanSongs,
                 installed, mode, limit, njobs, fate, spawned, enqueued, jobs,
                 jobsClosed, results, resultsClosed, wg, wpc, holding, errors,
                 drained, halt, searchCalls, searchArgs, fetchCalls,
                 fetchArgs, ytDlpChecks>>

\* DownloadAudio returns to ProcessFile: its error is logged, and the loop
\* goes on with the next line.
ProcessFileDownloadReturn ==
  /\ Running
  /\ mainpc = "lineFetch"
  /\ outcome' = [outcome EXCEPT
                   ![lineNo] = Append(@, DownloadAudio(installed, fate[lineNo]))]
  /\ lineNo' = lineNo + 1
  /\ mainpc' = "line"
  /\ UNCHANGED <<songQuery, environ, cfg, file, nextPageToken, cleanSongs,
                 installed, mode, limit, njobs, fate, spawned, enqueued, jobs,
                 jobsClosed, results, resultsClosed, wg, wpc, holding, errors,
                 drained, ret, halt, searchCalls, searchArgs, fetchCalls,
                 fetchArgs, ytDlpChecks>>

\* After the last line: return nil.
ProcessFileReturn ==
  /\ Running
  /\ mainpc = "line"
  /\ lineNo > Len(queries)
  /\ ret' = BatchReturn("nil", 0)
  /\ mainpc' = "done"
  /\ UNCHANGED <<songQuery, lineNo, environ, cfg, file, nextPageToken,
                 cleanSongs, installed, mode, limit, njobs, fate, spawned,
                 enqueued, jobs, jobsClosed, results, resultsClosed, wg, wpc,
                 holding, errors, drained, halt, searchCalls, searchArgs,
                 fetchCalls, fetchArgs, ytDlpChecks, outcome>>

\* youtube.ListVideos: one search with cfg.Query; its error is returned, an
\* empty or a printed list returns nil.
ListVideos ==
  /\ Running
  /\ mainpc = "list"
  /\ CallSearch(1, cfg.Query)
  /\ ret' = IF fate[1] = "searchErr"
              THEN BatchReturn("error searching videos", 0)
              ELSE BatchReturn("nil", 0)
  /\ mainpc' = "done"
  /\ UNCHANGED <<songQuery, lineNo, environ, cfg, file, nextPageToken,
                 cleanSongs, installed, mode, limit, njobs, fate, spawned,
                 enqueued, jobs, jobsClosed, results, resultsClosed, wg, wpc,
                 holding, errors, drained, halt, fetchCalls, fetchArgs,
                 ytDlpChecks, outcome>>

\* youtube.SearchAndDownloadSong, and run's use of it: a search with
\* cfg.Query+" audio"; an error or an empty list is returned as an error,
\* else run calls DownloadAudio with the first identifier.
SearchAndDownloadSong ==
  /\ Running
  /\ mainpc = "song"
  /\ CallSearch(1, Query(cfg.Query))
  /\ IF fate[1] = "searchErr"
       THEN /\ ret' = BatchReturn("error searching for song", 0)
            /\ mainpc' = "done"
            /\ NoDownload
       ELSE IF fate[1] = "notFound"
         THEN /\ ret' = BatchReturn("no videos found for the song", 0)
              /\ mainpc' = "done"
              /\ NoDownload
         ELSE /\ \E n \in VideoCounts :
                   CallDownload(1, FirstVideo(VideosFor(cfg.Query, n)))
              /\ mainpc' = "audio"
              /\ ret' = ret
  /\ UNCHANGED <<songQuery, lineNo, environ, cfg, file, nextPageToken,
                 cleanSongs, installed, mode, limit, njobs, fate, spawned,
                 enqueued, jobs, jobsClosed, results, resultsClosed, wg, wpc,
                 holding, errors, drained, halt, outcome>>

\* DownloadAudio returns to run, which returns its value.
DownloadReturn ==
  /\ Running
  /\ mainpc = "audio"
  /\ ret' = BatchReturn(DownloadAudio(installed, fate[1]), 0)
  /\ mainpc' = "done"
  /\ UNCHANGED <<songQuery, lineNo, environ, cfg, file, nextPageToken,
                 cleanSongs, installed, mode, limit, njobs, fate, spawned,
                 enqueued, jobs, jobsClosed, results, resultsClosed, wg, wpc,
                 holding, errors, drained, halt, searchCalls, searchArgs,
                 fetchCalls, fetchArgs, ytDlpChecks, outcome>>

\* getDownloadPath calls log.Fatalf inside a DownloadAudio call of the main
\* goroutine.
DownloadFatal ==
  /\ Running
  /\ mainpc \in {"lineFetch", "audio"}
  /\ installed
  /\ halt' = "fatal"
  /\ UNCHANGED <<songQuery, lineNo, environ, cfg, file, nextPageToken,
                 cleanSongs, installed, mode, limit, njobs, fate, mainpc,
                 spawned, enqueued, jobs, jobsClosed, results, resultsClosed,
                 wg, wpc, holding, errors, drained, ret, searchCalls,
                 searchArgs, fetchCalls, fetchArgs, ytDlpChecks, outcome>>

\* The state before ParseFlags for the flags c and -s sq, the file f of -f,
\* and the answers ft of the external calls (one per line of the file, one
\* for a single query).
RunStart(c, sq, f, inst, ft) ==
  /\ environ = KeySet
  /\ cfg = c
  /\ songQuery = sq
  /\ lineNo = 0
  /\ file = f
  /\ mode = "none"
  /\ limit = 1
  /\ njobs = 0
  /\ installed = inst
  /\ fate = ft
  /\ mainpc = "flags"
  /\ nextPageToken = 0
  /\ cleanSongs = <<>>
  /\ spawned = 0
  /\ enqueued = 0
  /\ jobs = <<>>
  /\ jobsClosed = FALSE
  /\ results = <<>>
  /\ resultsClosed = FALSE
  /\ wg = 0
  /\ wpc = [w \in WorkerIds |-> "unborn"]
  /\ holding = [w \in WorkerIds |-> 0]
  /\ errors = 0
  /\ drained = 0
  /\ ret = NotReturned
  /\ halt = "no"
  /\ searchCalls = [i \in DOMAIN ft |-> 0]
  /\ searchArgs = [i \in DOMAIN ft |-> <<>>]
  /\ fetchCalls = [i \in DOMAIN ft |-> 0]
  /\ fetchArgs = [i \in DOMAIN ft |-> <<>>]
  /\ outcome = [i \in DOMAIN ft |-> <<>>]
  /\ ytDlpChecks = 0

\* The characters of the text file, and the files of n characters.
FileChars == {"A", " ", "\n"}

FileTexts(n) == [1..n -> FileChars]

\* The answers for the lines of the text t: a blank line makes no call.
LineFates(t) ==
  LET lines == Split(t, Newline)
  IN  {ft \in [1..Len(lines) -> RunFates] :
         \A i \in 1..Len(lines) : TrimSpace(lines[i]) = <<>> => ft[i] = "ok"}

\* The invocations: every combination of the flags on a one-line file,
\* -f alone with every text file, and -f with a file that is not there.
RunInit ==
  \/ \E h \in BOOLEAN, l \in BOOLEAN, inst \in BOOLEAN :
       \E d \in {<<>>, <<"D">>}, sq \in {<<>>, <<"S">>} :
         \E fp \in {<<>>, FileName}, p \in {<<>>, PlaylistId} :
           \E m \in {<<>>, <<"A">>}, csv \in {<<>>, CsvFileName} :
             \E ft \in [1..1 -> RunFates] :
               RunStart(Config(d, l, fp, p, m, csv, h), sq,
                        TextFile(<<"A">>), inst, ft)
  \/ \E n \in 0..MaxFile : \E t \in FileTexts(n) :
       \E inst \in BOOLEAN : \E ft \in LineFates(t) :
         RunStart(Config(<<>>, FALSE, FileName, <<>>, <<>>, <<>>, FALSE),
                  <<>>, TextFile(t), inst, ft)
  \/ RunStart(Config(<<>>, FALSE, FileName, <<>>, <<>>, <<>>, FALSE),
              <<>>, NoFile, TRUE, <<"ok">>)

RunNext ==
  \/ ParseFlags
  \/ Run
  \/ ReadFile
  \/ ProcessFileSkip
  \/ ProcessFileSearch
  \/ ProcessFileSearchReturn
  \/ ProcessFileDownloadReturn
  \/ ProcessFileReturn
  \/ ListVideos
  \/ SearchAndDownloadSong
  \/ DownloadReturn
  \/ DownloadFatal

RunSpec == RunInit /\ [][RunNext]_vars

\* ---------------------------------------------------------------- claims
Done == mainpc = "done"

\* The batch went through the pool (it did not stop at the empty-list test
\* or at a playlist page that could not be fetched).
PoolReturned ==
  /\ Done
  /\ ret.err \notin {"no valid songs", "error fetching playlist items"}

\* The job list was obtained (no playlist page failed).
Listed == ret.err # "error fetching playlist items"

Spawned == 1..spawned

Fetching == {w \in WorkerIds : wpc[w] = "fetch"}

Queued(j) == {i \in 1..Len(results) : results[i].src = j}

IsFailure(e) == e # "nil"

Failed(j) == \E i \in 1..Len(outcome[j]) : IsFailure(outcome[j][i])

FailureOutcomes ==
  {p \in JobIds \X (1..MaxJobs) : p[2] <= Len(outcome[p[1]])
                                   /\ IsFailure(outcome[p[1]][p[2]])}

\* C1: in a song-list batch every enqueued job yields exactly one outcome:
\* no job ever has more than one outcome on the result queue, and when the
\* batch has finished every job has exactly one.
C1_ExactlyOneOutcome ==
  mode = "songs" =>
    /\ \A j \in JobIds : Cardinality(Queued(j)) <= 1 /\ Len(outcome[j]) <= 1
    /\ PoolReturned => \A j \in JobIds : Len(outcome[j]) = 1

\* C2: for N >= 1 jobs and a limit C >= 1 the collecting loop of
\* DownloadSongList receives exactly N outcomes before the batch returns:
\* never more than N, and N once it has returned.
C2_DrainsExactlyN ==
  (mode = "songs" /\ njobs >= 1 /\ limit >= 1) =>
    /\ drained <= njobs
    /\ Done => drained = njobs

\* C2 witness: a returned song batch with more workers than jobs, its
\* outcome (a success) received by the collecting loop.
C2_Witness ==
  /\ mode = "songs" /\ Done
  /\ njobs >= 1 /\ limit > njobs
  /\ drained = njobs
  /\ \E j \in JobIds : outcome[j] = <<"nil">>

\* C3: at any moment the number of workers inside a fetch call is at most
\* the configured concurrency limit.
C3_FetchBound == Cardinality(Fetching) <= limit

\* C3 witness: the limit is reached (two workers of two are fetching) while
\* a further job waits in the queue.
C3_Witness ==
  /\ limit = 2
  /\ Cardinality(Fetching) = 2
  /\ jobs # <<>>

\* Pool lifecycle read off the state: Created until the spawn loop has
\* started every worker, Running until close(jobs), Draining while a worker
\* has not returned, Done afterwards.
PoolPhase ==
  IF mainpc \in {"pages", "start"} \/ spawned < limit THEN "Created"
  ELSE IF ~jobsClosed THEN "Running"
  ELSE IF \E w \in Spawned : wpc[w] # "exited" THEN "Draining"
  ELSE "Done"

PhaseStep ==
  \/ PoolPhase' = PoolPhase
  \/ <<PoolPhase, PoolPhase'>> \in {<<"Created", "Running">>,
                                     <<"Running", "Draining">>,
                                     <<"Draining", "Done">>}

Completed ==
  /\ Done
  /\ PoolPhase = "Done"
  /\ \A w \in Spawned : wpc[w] = "exited"
  /\ drained = njobs

\* C4: with a limit C >= 1 and any number of jobs, under fair scheduling and
\* provided every external call returns (the process is never killed inside
\* one), a batch runs to completion: no state short of the return is stuck,
\* the pool only moves Created -> Running -> Draining -> Done, and the batch
\* eventually returns with every worker exited and every outcome collected.
C4_RunsToCompletion ==
  /\ []((limit >= 1 /\ Running /\ ~Done) => ENABLED Next)
  /\ [][limit >= 1 => PhaseStep]_vars
  /\ <>(limit < 1 \/ ~Running \/ Done)
  /\ []((limit >= 1 /\ PoolReturned) => Completed)

\* C4 witness: a batch of at least two jobs on at least two workers has
\* returned, the pool is Done and every worker has exited.
C4_Witness ==
  /\ limit >= 2 /\ njobs >= 2
  /\ Completed

ReportsFailure(w) ==
  /\ holding[w] # 0
  /\ Len(outcome'[holding[w]]) = Len(outcome[holding[w]]) + 1
  /\ IsFailure(outcome'[holding[w]][Len(outcome'[holding[w]])])

OthersUntouched(w) ==
  /\ \A v \in WorkerIds \ {w} : wpc'[v] = wpc[v] /\ holding'[v] = holding[v]
  /\ jobs' = jobs
  /\ jobsClosed' = jobsClosed
  /\ wg' = wg
  /\ mainpc' = mainpc
  /\ halt' = halt

\* C5: failure isolation is per job: the step in which a worker reports a
\* Failure leaves that worker at the head of its loop (ready to dequeue the
\* next job), touches no other worker, leaves the job queue as it is, and
\* a batch that saw failures still returns with one outcome for every job.
C5_FailureIsolation ==
  /\ [][\A w \in WorkerIds :
          ReportsFailure(w) => (wpc'[w] = "idle" /\ OthersUntouched(w))]_vars
  /\ []((PoolReturned /\ \E j \in JobIds : Failed(j))
          => \A j \in JobIds : Len(outcome[j]) = 1)

\* C5 witness: the only worker reported a Failure for job 1, went on to
\* job 2, which succeeded, and the batch returned.
C5_Witness ==
  /\ limit = 1 /\ njobs >= 2
  /\ PoolReturned
  /\ Failed(1)
  /\ outcome[2] = <<"nil">>

Attempted(j) ==
  /\ Len(outcome[j]) >= 1
  /\ mode = "songs" => searchCalls[j] >= 1

\* C6: DownloadSongList returns the aggregate error exactly when some job's
\* outcome is a Failure, the count in the error is the number of Failure
\* outcomes, and the error exists only once every job has been attempted.
C6_AggregateError ==
  mode = "songs" =>
    /\ Done => (ret.err = "encountered errors" <=> FailureOutcomes # {})
    /\ ret.err = "encountered errors" =>
         /\ Done
         /\ ret.n = Cardinality(FailureOutcomes)
         /\ \A j \in JobIds : Attempted(j)

\* C6 witness: a returned batch of three jobs, two of them failed, the error
\* names 2.
C6_Witness ==
  /\ mode = "songs" /\ Done
  /\ njobs = 3
  /\ ret = BatchReturn("encountered errors", 2)
  /\ Cardinality(FailureOutcomes) = 2

SearchReturned(j) ==
  /\ searchCalls[j] >= 1
  /\ ~\E w \in WorkerIds : holding[w] = j /\ wpc[w] = "search"

\* The outcome a query job gets from its own answers alone.
OwnOutcome(f) ==
  CASE f = "searchErr" -> "search failed"
    [] f = "notFound"  -> "no videos found"
    [] f = "fetchErr"  -> "download failed"
    [] f = "ok"        -> "nil"

\* C7: a query job whose search returned zero candidates gets the Failure
\* "no videos found" naming that job, the fetcher is never called for it, and
\* every other job's outcome is the one its own answers give.
C7_ZeroCandidates ==
  mode = "songs" =>
    \A j \in JobIds :
      /\ fate[j] = "notFound" =>
           /\ fetchCalls[j] = 0
           /\ SearchReturned(j) => outcome[j] = <<"no videos found">>
           /\ \A i \in Queued(j) : results[i].about = j
      /\ (fate[j] # "notFound" /\ outcome[j] # <<>>) =>
           outcome[j] = <<OwnOutcome(fate[j])>>

\* C7 witness: a returned batch in which one job found nothing and was
\* reported so, and another job was downloaded.
C7_Witness ==
  /\ mode = "songs" /\ Done
  /\ \E j, k \in JobIds :
       /\ fate[j] = "notFound" /\ outcome[j] = <<"no videos found">>
       /\ fate[k] = "ok" /\ outcome[k] = <<"nil">> /\ fetchCalls[k] = 1

SearchFails(w) ==
  /\ wpc[w] = "search"
  /\ fate[holding[w]] = "searchErr"
  /\ wpc'[w] # wpc[w]

\* C8: a query job whose search call failed gets exactly one Failure
\* ("search failed"), no fetch is made for it, and the worker that held it is
\* back at the head of its loop for the next job.
C8_SearchError ==
  /\ [](mode = "songs" =>
          \A j \in JobIds : fate[j] = "searchErr" =>
            /\ fetchCalls[j] = 0
            /\ Len(outcome[j]) <= 1
            /\ SearchReturned(j) => outcome[j] = <<"search failed">>)
  /\ [][\A w \in WorkerIds :
          SearchFails(w) => (wpc'[w] = "idle" /\ holding'[w] = 0)]_vars

\* C8 witness: the only worker reported the failed search of job 1 and is
\* now searching for job 2.
C8_Witness ==
  /\ mode = "songs" /\ limit = 1 /\ njobs >= 2
  /\ fate[1] = "searchErr" /\ outcome[1] = <<"search failed">>
  /\ holding[1] = 2 /\ wpc[1] = "search"

Finalizing ==
  \/ mainpc \in {"closeResults", "collect"}
  \/ PoolReturned
  \/ resultsClosed

\* C9: the main goroutine closes and drains the result queue and computes
\* the batch result only after every worker has exited: while it does so no
\* worker holds a job and the wait-group counter is zero.
C9_Barrier ==
  Finalizing =>
    /\ spawned = limit
    /\ \A w \in Spawned : wpc[w] = "exited"
    /\ \A w \in WorkerIds : holding[w] = 0
    /\ wg = 0

\* C9 witness: the collecting loop runs over at least two outcomes left by
\* at least two workers.
C9_Witness ==
  /\ mainpc = "collect"
  /\ limit >= 2
  /\ Len(results) >= 2

\* C10: a batch started with a limit <= 0 and at least one job is rejected:
\* no job is resolved or fetched and the caller gets an error, never success.
C10_NonPositiveLimitRejected ==
  (limit <= 0 /\ njobs >= 1) =>
    /\ \A j \in JobIds : searchCalls[j] = 0 /\ fetchCalls[j] = 0
    /\ Done => ret.err \notin {"none", "nil"}

\* C11 (as claimed): a batch of N jobs with a limit C >= 1 starts exactly
\* min(C, N) workers.
C11_MinWorkersStarted ==
  (limit >= 1 /\ Done /\ Listed) => spawned = Min(limit, njobs)

\* C11 (amended): a batch that reaches the spawn loop starts exactly C
\* workers, whatever the number of jobs (also when C > N); a song list with
\* no job returns before the loop and starts none.
C11_LimitWorkersStarted ==
  /\ spawned <= limit
  /\ (limit >= 1 /\ PoolReturned) =>
       /\ spawned = limit
       /\ Cardinality({w \in WorkerIds : wpc[w] # "unborn"}) = limit
  /\ (Done /\ ~PoolReturned) => spawned = 0

\* C11 witness: a returned batch with more workers than jobs; every one of
\* the C workers was started and has exited.
C11_Witness ==
  /\ PoolReturned
  /\ njobs >= 1 /\ limit > njobs
  /\ spawned = limit
  /\ \A w \in 1..limit : wpc[w] = "exited"

\* C12 (as claimed): a batch with zero jobs completes, reports success and
\* no worker fetches.
C12_EmptyBatchSucceeds ==
  njobs = 0 =>
    /\ Fetching = {}
    /\ (Done /\ Listed) => ret.err = "nil"

\* C12 (amended): with zero jobs no worker fetches; an empty playlist
\* whose listing succeeded returns success, while a song list or CSV without a usable entry returns
\* the error "no valid songs found in the list" before any worker is started.
C12_EmptyBatch ==
  njobs = 0 =>
    /\ Fetching = {}
    /\ \A w \in WorkerIds : wpc[w] \in {"unborn", "idle", "exited"}
    /\ (PoolReturned /\ mode = "playlist") => ret.err = "nil"
    /\ (Done /\ mode = "songs") => (ret.err = "no valid songs" /\ spawned = 0)
    /\ (mode = "songs" /\ mainpc # "start") => Done

\* C12 witness: a song-list batch without jobs has returned its error.
C12_Witness ==
  /\ njobs = 0 /\ mode = "songs" /\ limit >= 1
  /\ Done
  /\ ret.err = "no valid songs"

\* Job j has left the job queue (a worker received it).
Dequeued(j) ==
  /\ j <= enqueued
  /\ \A k \in 1..Len(jobs) : jobs[k] # j

Held(j) == \E w \in WorkerIds : holding[w] = j

\* C13: the availability of yt-dlp is checked once per batch, at pool start:
\* it is never checked a second time, and when it is unavailable no job is
\* dequeued, resolved or fetched.
C13_CheckedOncePerBatch ==
  /\ ytDlpChecks <= 1
  /\ ~installed =>
       \A j \in JobIds :
         ~Dequeued(j) /\ searchCalls[j] = 0 /\ fetchCalls[j] = 0

\* C14: every error met while a job is processed becomes a Failure outcome
\* on the result channel: the process is never terminated from inside a
\* job, and a job a worker is done with has its outcome.
C14_JobErrorsAreOutcomes ==
  /\ halt = "no"
  /\ \A j \in JobIds : (Dequeued(j) /\ ~Held(j)) => Len(outcome[j]) = 1

\* C15: a playlist batch that finishes with at least one failed job returns
\* an aggregate failure; it returns success only if no job failed.
C15_PlaylistAggregate ==
  (mode = "playlist" /\ Done) =>
    /\ (\E j \in JobIds : Failed(j)) => ret.err # "nil"
    /\ ret.err = "nil" => \A j \in JobIds : ~Failed(j)

\* C16: no retry: over the whole batch a job causes at most one resolve call
\* and at most one fetch call, whatever those calls return.
C16_NoRetry ==
  \A j \in JobIds : searchCalls[j] <= 1 /\ fetchCalls[j] <= 1

\* C16 witness: a returned batch in which one job's download failed and
\* another job's search failed; each call was made once.
C16_Witness ==
  /\ PoolReturned
  /\ \E j, k \in JobIds :
       /\ fate[j] = "fetchErr" /\ Failed(j)
       /\ searchCalls[j] = 1 /\ fetchCalls[j] = 1
       /\ fate[k] = "searchErr" /\ Failed(k)
       /\ searchCalls[k] = 1 /\ fetchCalls[k] = 0

InInputOrder ==
  \A a, b \in 1..Len(results) : a < b => results[a].src < results[b].src

\* C17: outcome order is no guarantee.  With one worker the outcomes are on
\* the result queue in input order (and a job has its outcome only once all
\* earlier jobs have theirs); with two workers and two jobs or more a state
\* with a later job's outcome ahead of an earlier job's is reachable (the
\* witness).
C17_OrderOnlyWithOneWorker ==
  limit = 1 =>
    /\ InInputOrder
    /\ \A i, j \in JobIds : (i < j /\ outcome[j] # <<>>) => outcome[i] # <<>>

\* C17 witness: two workers or more, and the result queue holds the outcome
\* of a later-listed job ahead of the outcome of an earlier-listed one.
C17_Witness ==
  /\ limit >= 2 /\ njobs >= 2
  /\ \E a, b \in 1..Len(results) : a < b /\ results[a].src > results[b].src

\* C18: the job queue keeps the Job Source order: the buffer holds the jobs
\* enqueued and not yet received, in list order, so job j is received only
\* after every job listed before it.
C18_FifoQueue ==
  /\ Len(jobs) <= enqueued
  /\ \A k \in 1..Len(jobs) : jobs[k] = enqueued - Len(jobs) + k
  /\ \A i, j \in JobIds : (i < j /\ Dequeued(j)) => Dequeued(i)

\* C18 witness: jobs 1 and 2 are with the two workers, job 3 still waits.
C18_Witness ==
  /\ limit = 2 /\ njobs = 3
  /\ holding[1] # 0 /\ holding[2] # 0
  /\ {holding[1], holding[2]} = {1, 2}
  /\ jobs = <<3>>

\* C19: for a query job whose search returned candidates the fetcher is
\* called with the identifier of the first candidate in provider order and
\* with no other.
C19_FirstCandidate ==
  mode = "songs" =>
    \A j \in JobIds :
      /\ \A i \in 1..Len(fetchArgs[j]) : fetchArgs[j][i] = CandidateId(j, 1)
      /\ (fate[j] \in {"fetchErr", "ok"} /\ SearchReturned(j)) =>
           fetchArgs[j] = <<CandidateId(j, 1)>>

\* C19 witness: a query job was downloaded from its first candidate.
C19_Witness ==
  /\ mode = "songs"
  /\ \E j \in JobIds :
       /\ fate[j] = "ok"
       /\ fetchArgs[j] = <<CandidateId(j, 1)>>
       /\ outcome[j] = <<"nil">>

\* C20: for a playlist job the worker makes no resolver call and calls the
\* fetcher exactly once, with the identifier as it was enqueued.
C20_PlaylistLiteral ==
  mode = "playlist" =>
    \A j \in JobIds :
      /\ searchCalls[j] = 0
      /\ Len(fetchArgs[j]) <= 1
      /\ Dequeued(j) => fetchArgs[j] = <<EntryId(j)>>
      /\ ~Dequeued(j) => fetchArgs[j] = <<>>

\* C20 witness: a returned playlist batch of two entries or more, each
\* downloaded once under its own identifier.
C20_Witness ==
  /\ mode = "playlist" /\ PoolReturned
  /\ njobs >= 2
  /\ \A j \in JobIds : fetchArgs[j] = <<EntryId(j)>> /\ Len(outcome[j]) = 1


\* C21 (as claimed): the query text a song job is searched with is exactly
\* the text of the job as the Job Source produced it.
C21_QueryIsDescriptor ==
  mode = "songs" =>
    \A j \in JobIds :
      \A i \in 1..Len(searchArgs[j]) : searchArgs[j][i] = cleanSongs[j]

\* C21 (amended): the query text is the text of the job followed by the six
\* characters " audio", nothing else added or removed.
C21_QueryIsDescriptorAudio ==
  mode = "songs" =>
    \A j \in JobIds :
      /\ Len(searchArgs[j]) = searchCalls[j]
      /\ \A i \in 1..Len(searchArgs[j]) :
           LET q == searchArgs[j][i]
               n == Len(cleanSongs[j])
           IN  /\ Len(q) = n + 6
               /\ SubSeq(q, 1, n) = cleanSongs[j]
               /\ SubSeq(q, n + 1, n + 6) = <<" ", "a", "u", "d", "i", "o">>

\* C21 witness: the song "B" was searched as "B audio".
C21_Witness ==
  /\ mode = "songs"
  /\ \E j \in JobIds :
       /\ cleanSongs[j] = <<"B">>
       /\ searchArgs[j] = << <<"B", " ", "a", "u", "d", "i", "o">> >>


\* The list has been built (the batch is about to start its pool).
ListedFromText == mainpc = "listed" /\ cfg.SongCSVFile = <<>>

ListedFromCSV == mainpc = "listed" /\ cfg.SongCSVFile # <<>>

\* The positions at which text t is cut: before it, at each comma, behind it.
Cuts(t) == {0, Len(t) + 1} \cup {i \in 1..Len(t) : t[i] = ","}

NextCut(t, a) == CHOOSE b \in Cuts(t) : b > a /\ \A c \in Cuts(t) : c > a => b <= c

\* The m-th entry of t: the characters between the m-th cut and the next.
Entry(t, m) ==
  LET a == CHOOSE c \in Cuts(t) : Cardinality({d \in Cuts(t) : d <= c}) = m
  IN  SubSeq(t, a + 1, NextCut(t, a) - 1)

\* s without the blanks at its ends.
Stripped(s) ==
  LET inked == {i \in 1..Len(s) : s[i] # " "}
  IN  IF inked = {} THEN <<>>
      ELSE SubSeq(s, CHOOSE i \in inked : \A k \in inked : i <= k,
                     CHOOSE i \in inked : \A k \in inked : k <= i)

NonEmpty(s) == s # <<>>

Entries(t) ==
  SelectSeq([m \in 1..(Cardinality(Cuts(t)) - 1) |-> Stripped(Entry(t, m))],
            NonEmpty)

\* C22: the jobs of a comma-separated song list are its entries with the
\* white space at their ends removed, the entries that are empty then left
\* out, in the order of the list.
C22_TrimmedEntriesInOrder ==
  ListedFromText => cleanSongs = Entries(cfg.SongList)

\* C22 witness: "A, ,B" gave exactly the two jobs "A" and "B".
C22_Witness ==
  /\ ListedFromText
  /\ cfg.SongList = <<"A", ",", " ", ",", "B">>
  /\ cleanSongs = << <<"A">>, <<"B">> >>


\* a and b are equal but for the case of their letters.
EqualFold(a, b) ==
  /\ Len(a) = Len(b)
  /\ \A i \in 1..Len(a) : LowerChar(a[i]) = LowerChar(b[i])

\* The row carries one of the two field labels.
HeaderLike(row) ==
  /\ Len(row) >= 2
  /\ \/ EqualFold(row[1], <<"a", "r", "t", "i", "s", "t">>)
     \/ EqualFold(row[2], <<"s", "o", "n", "g">>)

\* The row has an artist and a title.
Usable(row) ==
  /\ Len(row) >= 2
  /\ Stripped(row[1]) # <<>>
  /\ Stripped(row[2]) # <<>>

ArtistDashTitle(row) ==
  Stripped(row[1]) \o <<" ", "-", " ">> \o Stripped(row[2])

\* The jobs of rows that are all data.
DataJobs(rows) ==
  LET usable == SelectSeq(rows, Usable)
  IN  [k \in 1..Len(usable) |-> ArtistDashTitle(usable[k])]

\* C23: the first row of a CSV file is skipped if and only if its first
\* field is "artist" or its second field is "song" in any case of letters;
\* otherwise it is data, and every later row is data whatever it holds: the
\* jobs are those of the rows behind such a first row, or of all rows.
C23_HeaderOnlyFirstRow ==
  ListedFromCSV =>
    LET rows == file.rows
        data == IF rows # <<>> /\ HeaderLike(rows[1]) THEN Tail(rows) ELSE rows
    IN  cleanSongs = DataJobs(data)

\* C23 witness: the first row ("Artist", "J ") was skipped, the second row
\* ("Artist", "SONG") was read as data.
C23_Witness ==
  /\ ListedFromCSV
  /\ file.rows = << << <<"A", "r", "t", "i", "s", "t">>, <<"J", " ">> >>,
                    << <<"A", "r", "t", "i", "s", "t">>, <<"S", "O", "N", "G">> >> >>
  /\ cleanSongs = << <<"A", "r", "t", "i", "s", "t", " ", "-", " ",
                        "S", "O", "N", "G">> >>

\* The rows of the file that are data (not a skipped first row).
DataRows ==
  {i \in 1..Len(file.rows) : ~(i = 1 /\ HeaderLike(file.rows[i]))}

\* C24: in a file of two-field rows a data row gives the job
\* "<artist> - <title>" of its trimmed fields if and only if neither field
\* is blank; the other rows give nothing and take nothing away, and the jobs
\* stand in row order.
C24_TwoFieldRows ==
  (ListedFromCSV /\ \A i \in 1..Len(file.rows) : Len(file.rows[i]) = 2) =>
    LET kept == {i \in DataRows : Usable(file.rows[i])}
        rank(i) == Cardinality({k \in kept : k <= i})
    IN  /\ Len(cleanSongs) = Cardinality(kept)
        /\ \A i \in kept : cleanSongs[rank(i)] = ArtistDashTitle(file.rows[i])

\* C24 witness: the row ("J ", "") was skipped, the row ("J ", " song")
\* behind it gave "J - song".
C24_Witness ==
  /\ ListedFromCSV
  /\ file.rows = << << <<"J", " ">>, <<>> >>,
                    << <<"J", " ">>, <<" ", "s", "o", "n", "g">> >> >>
  /\ cleanSongs = << <<"J", " ", "-", " ", "s", "o", "n", "g">> >>

FirstFields == [i \in 1..Len(file.rows) |-> Stripped(file.rows[i][1])]

\* C25: a CSV file whose rows have one field gives one job per non-blank
\* row, the trimmed text of the row, in row order.
C25_SingleFieldRows ==
  (ListedFromCSV /\ \A i \in 1..Len(file.rows) : Len(file.rows[i]) = 1) =>
    cleanSongs = SelectSeq(FirstFields, NonEmpty)

\* C29: the key is api_key if set, else youtube_api_key; the run is ended
\* for a missing key only when neither is set.
C29_KeyFallback ==
  mainpc # "flags" \/ halt # "no" =>
    /\ halt = "fatal" <=>
         (environ.api_key = <<>> /\ environ.youtube_api_key = <<>>)
    /\ halt = "no" =>
         cfg.APIKey = IF environ.api_key # <<>> THEN environ.api_key
                      ELSE environ.youtube_api_key


\* The first n entries of the playlist as the provider lists them.
Playlist(n) == [j \in 1..n |-> EntryId(j)]

\* C26: getPlaylistVideos asks for pages until a response carries no next
\* page token and returns the identifiers of all pages in page order: while
\* pages are fetched the list is the playlist up to the page reached, no
\* worker is started and no job enqueued; afterwards it is the whole playlist.
C26_AllPagesBeforeDispatch ==
  mode = "playlist" =>
    /\ mainpc = "pages" =>
         /\ cleanSongs = Playlist(Len(cleanSongs))
         /\ nextPageToken = Len(cleanSongs)
         /\ spawned = 0 /\ enqueued = 0 /\ jobs = <<>>
         /\ \A w \in WorkerIds : wpc[w] = "unborn"
    /\ (mainpc # "pages" /\ Listed) =>
         /\ cleanSongs = Playlist(njobs)
         /\ nextPageToken = 0

\* C26 witness: a playlist longer than one page is enqueued in full.
C26_Witness ==
  /\ mode = "playlist"
  /\ njobs > PageSize
  /\ enqueued = njobs
  /\ cleanSongs = Playlist(njobs)

\* C27: every Failure on the result queue names the job it was sent for, in
\* song batches and in playlist batches.
C27_FailureNamesJob ==
  \A i \in 1..Len(results) :
    IsFailure(results[i].err) => results[i].about = results[i].src

\* Jobs i and j are the same entry of the list.
SameEntry(i, j) ==
  /\ i # j
  /\ i <= Len(cleanSongs) /\ j <= Len(cleanSongs)
  /\ cleanSongs[i] = cleanSongs[j]

FetchesOf(j) ==
  IF mode = "playlist" \/ fate[j] \in {"fetchErr", "ok"} THEN 1 ELSE 0

\* C28: nothing is deduplicated or cached: every entry of the list is
\* enqueued, also one that repeats an earlier entry, and in a batch that
\* went through a pool of at least one worker each of the repeated entries
\* has had its own fetch call and has its own outcome.
C28_NoDedup ==
  /\ jobsClosed => enqueued = njobs
  /\ \A j \in JobIds : j > enqueued => ~Dequeued(j)
  /\ (PoolReturned /\ limit >= 1) =>
       \A i, j \in JobIds :
         SameEntry(i, j) =>
           /\ Len(outcome[i]) = 1 /\ Len(outcome[j]) = 1
           /\ fetchCalls[i] = FetchesOf(i) /\ fetchCalls[j] = FetchesOf(j)
           /\ fetchArgs[i] = fetchArgs[j] \/ FetchesOf(i) # FetchesOf(j)

\* C28 witness: the same entry was listed twice; it was fetched twice under
\* the same identifier, once with success and once with a failure.
C28_Witness ==
  /\ PoolReturned
  /\ \E i, j \in JobIds :
       /\ SameEntry(i, j)
       /\ fetchCalls[i] = 1 /\ fetchCalls[j] = 1
       /\ fetchArgs[i] = fetchArgs[j]
       /\ outcome[i] = <<"nil">>
       /\ Failed(j)

\* The steps a worker can take.
WorkerCycle ==
  { <<"unborn", "idle">>, <<"idle", "search">>, <<"idle", "fetch">>,
    <<"search", "fetch">>, <<"search", "idle">>, <<"fetch", "idle">>,
    <<"idle", "exited">> }

WorkerMoves(w) ==
  /\ wpc'[w] # wpc[w] => <<wpc[w], wpc'[w]>> \in WorkerCycle
  /\ (wpc[w] = "idle" /\ wpc'[w] \in {"search", "fetch"}) =>
       /\ jobs # <<>> /\ jobs' = Tail(jobs)
       /\ holding'[w] = Head(jobs)
       /\ (wpc'[w] = "search") = (mode = "songs")
  /\ (wpc[w] \in {"search", "fetch"} /\ wpc'[w] = "idle") =>
       /\ holding'[w] = 0
       /\ Len(outcome'[holding[w]]) = Len(outcome[holding[w]]) + 1
  /\ (wpc[w] # "exited" /\ wpc'[w] = "exited") =>
       /\ jobsClosed /\ jobs = <<>>
       /\ holding[w] = 0
  /\ holding'[w] # holding[w] => wpc'[w] # wpc[w]

HoldsOne ==
  /\ \A w \in WorkerIds : (holding[w] # 0) = (wpc[w] \in {"search", "fetch"})
  /\ \A w \in WorkerIds : holding[w] # 0 => Len(outcome[holding[w]]) = 0
  /\ \A v, w \in WorkerIds : (v # w /\ holding[v] # 0) => holding[v] # holding[w]

\* C30: a worker goes Idle -> Dequeuing -> (Resolving) -> Fetching ->
\* Reporting -> Idle: it holds one job at most, the job it holds has no
\* outcome yet and gets one in the step that lets go of it, and the worker
\* exits only from Idle with the job queue closed and empty.
C30_WorkerCycle ==
  /\ []HoldsOne
  /\ [][\A w \in WorkerIds : WorkerMoves(w)]_vars

\* C30 witness: one worker has gone through the cycle twice and has exited.
C30_Witness ==
  /\ limit = 1 /\ njobs >= 2
  /\ wpc[1] = "exited"
  /\ \A j \in JobIds : Len(outcome[j]) = 1


Working == {w \in WorkerIds : wpc[w] \in {"search", "fetch"}}

\* C31: neither hand-off blocks on capacity: the job queue never holds more
\* than N jobs nor the result queue more than N outcomes, the producer in
\* its send loop always finds room for the next job (and can close the
\* queue once all are sent), and a worker with a job in hand always finds
\* room for its report, although nothing is drained before all have exited.
C31_NeverBlocksOnCapacity ==
  /\ Len(jobs) <= njobs
  /\ Len(results) <= njobs
  /\ (mainpc = "send" /\ enqueued < njobs) => Len(jobs) < njobs
  /\ (mainpc = "send" /\ enqueued = njobs) => ~jobsClosed
  /\ Working # {} =>
       /\ Len(results) + Cardinality(Working) <= njobs
       /\ ~resultsClosed
       /\ drained = 0

\* C31 witness: every job is sent and the queue closed before any worker
\* has received one; all N jobs sit in the buffer.
C31_Witness ==
  /\ njobs = MaxJobs /\ limit >= 1
  /\ jobsClosed
  /\ Len(jobs) = njobs

HeldBy(j) == {w \in WorkerIds : holding[w] = j}

Reported == {j \in JobIds : outcome[j] # <<>>}

RECURSIVE SumLen(_, _)
SumLen(f, n) == IF n = 0 THEN 0 ELSE Len(f[n]) + SumLen(f, n - 1)

\* C32: job conservation: the jobs not yet enqueued, those in the job
\* queue, those in the hands of a worker and the outcomes reported add up
\* to N, and no job is in the hands of two workers.
C32_JobConservation ==
  /\ (njobs - enqueued) + Len(jobs) + Cardinality(Working)
       + SumLen(outcome, njobs) = njobs
  /\ \A j \in JobIds : Cardinality(HeldBy(j)) <= 1
  /\ \A w \in Working : holding[w] \in JobIds
  /\ \A w \in WorkerIds \ Working : holding[w] = 0

\* C32 witness: of three jobs one is reported, two are held by workers;
\* of a fourth kind none is left: nothing queued, nothing unsent.
C32_Witness ==
  /\ njobs = 3
  /\ Cardinality(Working) = 2
  /\ Cardinality(Reported) = 1
  /\ jobs = <<>> /\ enqueued = 3

\* C33: nothing is sent on a closed channel: once the job queue is closed
\* no job joins it, once the result queue is closed no outcome joins it and
\* no worker panics; the result queue is closed only when every worker
\* started has made its last report and has exited.
C33_NoSendOnClosed ==
  /\ [](halt # "panic")
  /\ [](resultsClosed =>
         /\ Working = {}
         /\ \A w \in Spawned : wpc[w] = "exited")
  /\ [](jobsClosed => enqueued = njobs)
  /\ [][(jobsClosed =>
            (enqueued' = enqueued /\ Len(jobs') <= Len(jobs) /\ jobsClosed'))
         /\ (resultsClosed =>
              (outcome' = outcome /\ Len(results') <= Len(results)
                 /\ resultsClosed'))]_vars

\* C33 witness: the result queue is closed with the reports of two workers
\* in it.
C33_Witness ==
  /\ resultsClosed
  /\ spawned >= 2
  /\ Len(results) >= 2
  /\ \E a, b \in 1..Len(results) : results[a].src # results[b].src

\* C35: when the fetch of a playlist page fails DownloadPlaylist returns
\* that error at once: the identifiers of the pages fetched before are
\* dropped, no worker is started, no job enqueued and nothing fetched.
C35_PageErrorEndsBatch ==
  ret.err = "error fetching playlist items" =>
    /\ mode = "playlist"
    /\ Done
    /\ cleanSongs = <<>>
    /\ spawned = 0 /\ enqueued = 0 /\ jobs = <<>>
    /\ \A w \in WorkerIds : wpc[w] = "unborn"
    /\ \A j \in JobIds : fetchCalls[j] = 0 /\ outcome[j] = <<>>

\* C35 witness: the second page of a playlist failed after the first had
\* been fetched.
C35_Witness ==
  /\ ret.err = "error fetching playlist items"
  /\ njobs > PageSize
  /\ nextPageToken = PageSize
  /\ cleanSongs = <<>>


\* The calls of DownloadAudio that have returned: the answers of the
\* environment and the value returned.
DownloadsReturned ==
  IF mode \in {"direct", "song"}
    THEN IF Done /\ fetchCalls[1] = 1
           THEN {[f |-> fate[1], err |-> ret.err]}
           ELSE {}
    ELSE IF mode = "file"
      THEN {[f |-> fate[i], err |-> outcome[i][1]] :
              i \in {k \in DOMAIN outcome :
                       fetchCalls[k] = 1 /\ outcome[k] # <<>>}}
      ELSE {}

\* C34: DownloadAudio returns nil exactly when yt-dlp is available, the
\* process starts and its exit is a success; without the tool, when the
\* process does not start, and on a failed exit it returns an error.
C34_DownloadAudioResult ==
  \A d \in DownloadsReturned :
    /\ d.err = "nil" <=>
         (installed /\ d.f \notin {"pipeErr", "startErr"} /\ d.f = "ok")
    /\ ~installed => d.err = "yt-dlp not found"
    /\ (installed /\ d.f = "startErr") => d.err = "error starting yt-dlp"
    /\ (installed /\ d.f = "fetchErr") => d.err = "yt-dlp download failed"

\* C34 witness: a direct download whose process could not be started has
\* returned an error.
C34_Witness ==
  /\ mode = "direct" /\ Done
  /\ installed /\ fate[1] = "startErr"
  /\ ret.err # "nil"

Blank(i) == TrimSpace(queries[i]) = <<>>

\* Line i has been taken up and is not finished.
InProgress(i) == searchCalls[i] > 0 /\ outcome[i] = <<>>

FileLoop == mode = "file" /\ file.exists /\ lineNo >= 1

\* C36: ProcessFile takes the lines that are not blank one at a time in
\* the order of the file: the lines before the current one are finished,
\* each searched once with its trimmed text, the lines after it untouched,
\* so at most one search or download is in progress; a failed search, an
\* empty result or a failed download moves on to the next line, and when
\* ProcessFile returns every such line has been handled and the value
\* returned is nil.
C36_FileLinesInOrder ==
  /\ [](FileLoop =>
         /\ Cardinality({i \in DOMAIN outcome : InProgress(i)}) <= 1
         /\ \A i \in 1..Len(queries) :
              /\ Blank(i) => searchCalls[i] = 0 /\ outcome[i] = <<>>
              /\ fetchCalls[i] <= searchCalls[i]
              /\ i > lineNo => searchCalls[i] = 0 /\ outcome[i] = <<>>
              /\ InProgress(i) =>
                   i = lineNo /\ mainpc \in {"lineSearch", "lineFetch"}
              /\ (i < lineNo /\ ~Blank(i)) =>
                   /\ searchCalls[i] = 1
                   /\ searchArgs[i] = <<TrimSpace(queries[i])>>
                   /\ Len(outcome[i]) = 1
         /\ Done => (lineNo = Len(queries) + 1 /\ ret.err = "nil"))
  /\ [][(FileLoop /\ lineNo <= Len(queries) /\ outcome' # outcome) =>
           /\ lineNo' = lineNo + 1
           /\ mainpc' = "line"
           /\ ret' = NotReturned]_vars

\* C36 witness: ProcessFile has returned on a file of three lines: the
\* search of the first failed, the download of the second failed, the third
\* was downloaded.
C36_Witness ==
  /\ mode = "file" /\ Done
  /\ file.exists
  /\ Len(queries) = 3
  /\ outcome[1] = <<"search failed">>
  /\ outcome[2] = <<"yt-dlp download failed">>
  /\ outcome[3] = <<"nil">>

\* The modes in the order of their precedence.
Precedence == <<"help", "playlist", "songs", "file", "list", "song", "direct">>

\* The invocation asks for mode m: -h; -p; -m or --csv-file; -f; -l with a
\* query; -s; a query.
Asked(m) ==
  CASE m = "help" -> cfg.ShowHelp
    [] m = "playlist" -> cfg.PlaylistID # <<>>
    [] m = "songs" -> cfg.SongList # <<>> \/ cfg.SongCSVFile # <<>>
    [] m = "file" -> cfg.FilePath # <<>>
    [] m = "list" -> cfg.ListMode /\ cfg.Query # <<>>
    [] m = "song" -> songQuery # <<>>
    [] m = "direct" -> cfg.Query # <<>>

Chosen ==
  IF \A k \in 1..Len(Precedence) : ~Asked(Precedence[k]) THEN "help"
  ELSE Precedence[CHOOSE k \in 1..Len(Precedence) :
                    /\ Asked(Precedence[k])
                    /\ \A h \in 1..(k - 1) : ~Asked(Precedence[h])]

\* What has been started of each mode.
Started(m) ==
  CASE m = "help" -> FALSE
    [] m = "playlist" -> mainpc = "pages"
    [] m = "songs" -> mainpc \in {"source", "listed"}
    [] m = "file" -> mainpc \in {"file", "line", "lineSearch", "lineFetch"}
                      \/ lineNo > 0
    [] m = "list" -> mainpc = "list"
    [] m = "song" -> mainpc = "song"
    [] m = "direct" -> FALSE

NothingRun ==
  /\ spawned = 0 /\ enqueued = 0 /\ cleanSongs = <<>> /\ lineNo = 0
  /\ ytDlpChecks = 0
  /\ \A i \in DOMAIN searchCalls : searchCalls[i] = 0 /\ fetchCalls[i] = 0

====
